---- MODULE Spec2Model ----
(***************************************************************************)
(* A model of the price-list crawler (scraper.py), of its /scrape request  *)
(* handler (main.py) and of the pure text functions they rest on.          *)
(*                                                                         *)
(* Text is modelled at character level: a text is a sequence of one-       *)
(* character strings, so that the regular expressions of the price         *)
(* recognizer are computed the way Python's re computes them (leftmost     *)
(* match, greedy quantifiers giving way in priority order).                *)
(***************************************************************************)
EXTENDS Integers, Sequences, FiniteSets, TLC

VARIABLES
    \* ---- price recognizer harness (find_prices_in_text) ----
    ptext,      \* the input text
    pstage,     \* "input" | "done"
    pmatches,   \* all_matches: the raw matches, pattern by pattern
    pprices,    \* the list find_prices_in_text returns
    \* ---- one crawl (scrape_website_parallel) ----
    site,            \* the web site that answers the requests of this crawl
    max_pages,       \* self.max_pages
    max_workers,     \* self.max_workers
    start_url,       \* the argument of scrape_website_parallel
    pc,              \* where the driver (the thread that runs the crawl) is
    test_response,   \* how make_request(start_url) ended, once it has
    queue,           \* queue: the frontier, a deque of URLs
    visited_urls,    \* self.visited_urls
    batch,           \* batch: the URLs of the batch being filled
    futures,         \* future_to_url: the page futures of the running batch
    results,         \* results
    pending_pdfs,    \* pending_pdfs: (pdf_url, source_url) pairs
    page_signatures, \* self.page_signatures (its keys)
    pdf_signatures,  \* self.pdf_signatures (its keys)
    lock,            \* self.lock: who holds it
    pdf_futures,     \* pdf_futures: the PDF futures and where each worker is
    files,           \* the files of self.pdf_folder
    dispatched,      \* history: every URL handed to a page worker, in order
    \* ---- the excerpt assembler (extract_price_excerpts_fast) ----
    xpc,             \* where the assembler is: "idle" | "call" | "work" | "done"
    xindex,          \* which source of results it works on next
    seen_hashes,     \* seen_hashes
    all_excerpts,    \* all_excerpts
    excerpt_file,    \* the file it writes: <<>> while absent, else <<content>>
    excerpt_ret,     \* what the call returned: "none" | "filename"
    xrun,            \* history: how many calls were made on these results
    xfirst,          \* history: the excerpts of the first call
    xinput,          \* history: results as given to the first call
    \* ---- the /scrape handler (main.py) ----
    hpc,             \* where the handler is
    request,         \* request: url, max_pages, max_workers
    temp_filename,   \* temp_filename: <<>> while None
    reply,           \* what the handler answers: <<>> until it is decided
    hclass,          \* history: how the crawl of this request ended
    formatted_response, \* formatted_response: <<>> until call_gemini_api has returned
    unlink_result,   \* history: what the finally clause did with the temp file
    hlog,            \* history: the answered requests, in order
    \* ---- one call of make_request(url) ----
    mr_pc,           \* where the call is
    mr_answers,      \* what the server answers to the successive requests
    mr_attempt,      \* attempt
    mr_sent,         \* history: the requests sent, with their headers and answers
    mr_result,       \* how the call ended: <<>> until it has
    mr_kwargs,       \* kwargs: <<>> without a timeout, else <<timeout>>
    \* ---- the threads of a pool inside make_request ----
    request_count,   \* self.request_count
    tpc,             \* where each thread is
    tloaded,         \* the value each thread has read of self.request_count
    tattempt,        \* attempt, of each thread
    attempts_made,   \* history: the attempts made by all the threads together
    \* ---- the PDF phase of a crawl, its futures counted instead of told apart ----
    b_futures,       \* the entries whose process_pdf_fast has been submitted, in order
    b_taken,         \* how many of them a thread of the pool has started
    b_running,       \* how many of them are being fetched now
    b_consumed,      \* how many of them the loop over as_completed has handled
    b_downloaded,    \* len(results['downloaded_pdfs'])
    \* ---- one call of call_gemini_api(filename, api_key) ----
    g_pc,            \* where the call is
    g_max_retries,   \* max_retries
    g_attempt,       \* attempt
    g_posts,         \* history: what requests.post met, for every POST sent, in order
    g_slept,         \* history: the seconds handed to time.sleep, in order
    g_result         \* how the call ended: <<>> until it has

priceVars == <<ptext, pstage, pmatches, pprices>>

crawlVars == <<site, max_pages, max_workers, start_url, pc, test_response, queue, visited_urls, batch,
               futures, results, pending_pdfs, page_signatures, pdf_signatures, lock,
               pdf_futures, files, dispatched>>

excerptVars == <<xpc, xindex, seen_hashes, all_excerpts, excerpt_file, excerpt_ret, xrun,
                 xfirst, xinput>>

requestVars == <<mr_pc, mr_answers, mr_attempt, mr_sent, mr_result, mr_kwargs>>

counterVars == <<request_count, tpc, tloaded, tattempt, attempts_made>>

batchVars == <<b_futures, b_taken, b_running, b_consumed, b_downloaded>>

geminiVars == <<g_pc, g_max_retries, g_attempt, g_posts, g_slept, g_result>>

\* the state of the calls of single functions
harnessVars == <<priceVars, requestVars, counterVars, batchVars, geminiVars>>

handlerVars == <<hpc, request, temp_filename, reply, hclass, hlog, formatted_response, unlink_result>>

nonCrawlVars == <<harnessVars, excerptVars, handlerVars>>

nonExcerptVars == <<harnessVars, crawlVars, handlerVars>>

vars == <<harnessVars, crawlVars, excerptVars, handlerVars>>

-----------------------------------------------------------------------------
(* Characters and character classes                                        *)

Min(a, b) == IF a <= b THEN a ELSE b
Max(a, b) == IF a >= b THEN a ELSE b

Digits == {"0", "1", "2", "3", "4", "5", "6", "7", "8", "9"}

UpperLetters == <<"A", "B", "C", "D", "E", "F", "G", "H", "I", "J", "K", "L", "M",
                  "N", "O", "P", "Q", "R", "S", "T", "U", "V", "W", "X", "Y", "Z">>

LowerLetters == <<"a", "b", "c", "d", "e", "f", "g", "h", "i", "j", "k", "l", "m",
                  "n", "o", "p", "q", "r", "s", "t", "u", "v", "w", "x", "y", "z">>

\* str.lower() on one character
LowerChar(c) ==
    IF \E i \in 1..26 : UpperLetters[i] = c
    THEN LowerLetters[CHOOSE i \in 1..26 : UpperLetters[i] = c]
    ELSE c

\* str.upper() on one character
UpperChar(c) ==
    IF \E i \in 1..26 : LowerLetters[i] = c
    THEN UpperLetters[CHOOSE i \in 1..26 : LowerLetters[i] = c]
    ELSE c

Lower(t) == [i \in 1..Len(t) |-> LowerChar(t[i])]
Upper(t) == [i \in 1..Len(t) |-> UpperChar(t[i])]

IsLetter(c) == \E i \in 1..26 : UpperLetters[i] = c \/ LowerLetters[i] = c

\* \d
IsDigit(c) == c \in Digits

\* \s (and what str.strip() removes)
IsSpace(c) == c \in {" ", "\t", "\n", "\r"}

\* \w
IsWord(c) == IsLetter(c) \/ IsDigit(c) \/ c = "_"

\* The character at position p of t; "" (no character) outside the text.
At(t, p) == IF p >= 1 /\ p <= Len(t) THEN t[p] ELSE ""

\* \b at position p: between t[p-1] and t[p]
WordBoundary(t, p) == IsWord(At(t, p - 1)) /= IsWord(At(t, p))

\* str.strip()
RECURSIVE LStrip(_)
LStrip(t) == IF t /= <<>> /\ IsSpace(Head(t)) THEN LStrip(Tail(t)) ELSE t

RECURSIVE RStrip(_)
RStrip(t) ==
    IF t /= <<>> /\ IsSpace(t[Len(t)]) THEN RStrip(SubSeq(t, 1, Len(t) - 1)) ELSE t

Strip(t) == RStrip(LStrip(t))

\* sep.join(parts)
RECURSIVE Join(_, _)
Join(parts, sep) ==
    IF parts = <<>> THEN <<>>
    ELSE IF Len(parts) = 1 THEN parts[1]
    ELSE parts[1] \o sep \o Join(Tail(parts), sep)

\* sub in text (a substring starts at some position)
StartsAt(t, p, lit) ==
    /\ p + Len(lit) - 1 <= Len(t)
    /\ \A k \in 1..Len(lit) : t[p + k - 1] = lit[k]

Contains(t, lit) == \E p \in 1..(Len(t) + 1) : StartsAt(t, p, lit)

EndsWith(t, suffix) ==
    /\ Len(suffix) <= Len(t)
    /\ SubSeq(t, Len(t) - Len(suffix) + 1, Len(t)) = suffix

\* list(dict.fromkeys(xs)): the first occurrence of every element, in order
RECURSIVE DictFromKeys(_)
DictFromKeys(xs) ==
    IF xs = <<>> THEN <<>>
    ELSE LET init == DictFromKeys(SubSeq(xs, 1, Len(xs) - 1))
             last == xs[Len(xs)]
         IN  IF \E i \in 1..Len(init) : init[i] = last THEN init
             ELSE Append(init, last)

Range(s) == {s[i] : i \in 1..Len(s)}

-----------------------------------------------------------------------------
(* Regular-expression pieces.  A position p is the index of the next       *)
(* character to read (1..Len(t)+1); 0 means "no match".                    *)

NoMatch == 0

\* a literal under re.IGNORECASE
MatchLit(t, p, lit) ==
    IF p = NoMatch THEN NoMatch
    ELSE IF /\ p + Len(lit) - 1 <= Len(t)
            /\ \A k \in 1..Len(lit) : LowerChar(t[p + k - 1]) = LowerChar(lit[k])
         THEN p + Len(lit)
         ELSE NoMatch

\* \s*  (greedy; what follows it in every pattern is never a space)
RECURSIVE SkipSpaces(_, _)
SkipSpaces(t, p) ==
    IF p = NoMatch THEN NoMatch
    ELSE IF IsSpace(At(t, p)) THEN SkipSpaces(t, p + 1)
    ELSE p

\* c?  (greedy)
OptChar(t, p, c) ==
    IF p = NoMatch THEN NoMatch
    ELSE IF At(t, p) = c THEN p + 1
    ELSE p

\* the length of the run of digits starting at p
RECURSIVE DigitRun(_, _)
DigitRun(t, p) == IF IsDigit(At(t, p)) THEN 1 + DigitRun(t, p + 1) ELSE 0

\* \.\d{d} at q: the position after it, as a list of zero or one element
DecOpt(t, q, d) ==
    IF At(t, q) = "." /\ \A k \in 1..d : IsDigit(At(t, q + k))
    THEN <<q + 1 + d>>
    ELSE <<>>

\* (?:\.\d{1,2})? when oneDigit, (?:\.\d{2})? otherwise: the ends it can
\* reach from q, in the order the matcher tries them
DecEnds(t, q, oneDigit) ==
    DecOpt(t, q, 2) \o (IF oneDigit THEN DecOpt(t, q, 1) ELSE <<>>) \o <<q>>

\* how many times ,\d{3} repeats from q
RECURSIVE GroupCount(_, _)
GroupCount(t, q) ==
    IF At(t, q) = "," /\ \A k \in 1..3 : IsDigit(At(t, q + k))
    THEN 1 + GroupCount(t, q + 4)
    ELSE 0

\* (?:,\d{3})* taken g times, then g-1 times, ..., then not at all
RECURSIVE GroupEnds(_, _, _, _)
GroupEnds(t, q, g, oneDigit) ==
    DecEnds(t, q + 4 * g, oneDigit)
        \o (IF g = 0 THEN <<>> ELSE GroupEnds(t, q, g - 1, oneDigit))

\* \d{1,3} taken k times, then k-1 times, ..., then once
RECURSIVE IntEnds(_, _, _, _)
IntEnds(t, p, k, oneDigit) ==
    IF k = 0 THEN <<>>
    ELSE GroupEnds(t, p + k, GroupCount(t, p + k), oneDigit)
            \o IntEnds(t, p, k - 1, oneDigit)

\* \d{1,3}(?:,\d{3})*(?:\.\d{1,2})?  (or ...(?:\.\d{2})?): every end the
\* number can have when it starts at p, in the matcher's order of preference
NumberEnds(t, p, oneDigit) ==
    IF p = NoMatch THEN <<>>
    ELSE IntEnds(t, p, Min(3, DigitRun(t, p)), oneDigit)

\* the number with nothing required after it: the first preference
NumberEnd(t, p) ==
    LET ends == NumberEnds(t, p, TRUE)
    IN  IF ends = <<>> THEN NoMatch ELSE ends[1]

\* the first element of ends that is not NoMatch
RECURSIVE FirstMatch(_)
FirstMatch(ends) ==
    IF ends = <<>> THEN NoMatch
    ELSE IF ends[1] /= NoMatch THEN ends[1]
    ELSE FirstMatch(Tail(ends))

-----------------------------------------------------------------------------
(* The price recognizer: price_patterns and find_prices_in_text            *)

Chars_USD == <<"U", "S", "D">>
Chars_Price == <<"P", "r", "i", "c", "e">>
Chars_Cost == <<"C", "o", "s", "t">>
Chars_dollar == <<"d", "o", "l", "l", "a", "r">>

\* \$\s*\d{1,3}(?:,\d{3})*(?:\.\d{1,2})?
Pattern1(t, p) == NumberEnd(t, SkipSpaces(t, MatchLit(t, p, <<"$">>)))

\* \$\s*\d+(?:\.\d{1,2})?
Pattern2(t, p) ==
    LET q == SkipSpaces(t, MatchLit(t, p, <<"$">>))
    IN  IF q = NoMatch \/ DigitRun(t, q) = 0 THEN NoMatch
        ELSE DecEnds(t, q + DigitRun(t, q), TRUE)[1]

\* USD\s*\$?\s*\d{1,3}(?:,\d{3})*(?:\.\d{1,2})?
Pattern3(t, p) ==
    NumberEnd(t, SkipSpaces(t, OptChar(t, SkipSpaces(t, MatchLit(t, p, Chars_USD)), "$")))

\* \s*USD after a number ending at e
SuffixUSD(t, e) == MatchLit(t, SkipSpaces(t, e), Chars_USD)

\* \d{1,3}(?:,\d{3})*(?:\.\d{1,2})?\s*USD
Pattern4(t, p) ==
    LET ends == NumberEnds(t, p, TRUE)
    IN  FirstMatch([i \in 1..Len(ends) |-> SuffixUSD(t, ends[i])])

\* Price:?\s*\$?\s*\d{1,3}(?:,\d{3})*(?:\.\d{1,2})?
Pattern5(t, p) ==
    NumberEnd(t, SkipSpaces(t, OptChar(t, SkipSpaces(t,
        OptChar(t, MatchLit(t, p, Chars_Price), ":")), "$")))

\* Cost:?\s*\$?\s*\d{1,3}(?:,\d{3})*(?:\.\d{1,2})?
Pattern6(t, p) ==
    NumberEnd(t, SkipSpaces(t, OptChar(t, SkipSpaces(t,
        OptChar(t, MatchLit(t, p, Chars_Cost), ":")), "$")))

\* \s*dollars?\b after a number ending at e: "dollars" is tried before "dollar"
SuffixDollars(t, e) ==
    LET q == MatchLit(t, SkipSpaces(t, e), Chars_dollar)
    IN  IF q = NoMatch THEN NoMatch
        ELSE IF LowerChar(At(t, q)) = "s" /\ WordBoundary(t, q + 1) THEN q + 1
        ELSE IF WordBoundary(t, q) THEN q
        ELSE NoMatch

\* \b\d{1,3}(?:,\d{3})*(?:\.\d{1,2})?\s*dollars?\b
Pattern7(t, p) ==
    IF ~WordBoundary(t, p) THEN NoMatch
    ELSE LET ends == NumberEnds(t, p, TRUE)
         IN  FirstMatch([i \in 1..Len(ends) |-> SuffixDollars(t, ends[i])])

\* (?=\s|$) at e: a space follows, or the text ends there ($ also matches
\* before a final newline, which is a space)
LookaheadSpaceOrEnd(t, e) ==
    IF IsSpace(At(t, e)) \/ e = Len(t) + 1 THEN e ELSE NoMatch

\* (?<=\s)\d{1,3}(?:,\d{3})*(?:\.\d{2})?(?=\s|$)
Pattern8(t, p) ==
    IF ~IsSpace(At(t, p - 1)) THEN NoMatch
    ELSE LET ends == NumberEnds(t, p, FALSE)
         IN  FirstMatch([i \in 1..Len(ends) |-> LookaheadSpaceOrEnd(t, ends[i])])

\* $ (no re.MULTILINE) at e: the end of the text, or just before its final newline
AtEnd(t, e) ==
    IF e = Len(t) + 1 \/ (e = Len(t) /\ At(t, e) = "\n") THEN e ELSE NoMatch

\* ^\d{1,3}(?:,\d{3})*(?:\.\d{2})?$
Pattern9(t, p) ==
    IF p /= 1 THEN NoMatch
    ELSE LET ends == NumberEnds(t, p, FALSE)
         IN  FirstMatch([i \in 1..Len(ends) |-> AtEnd(t, ends[i])])

NumPricePatterns == 9

\* self.price_patterns[k - 1].match(t, p): where the match ends, or NoMatch
PatternEnd(k, t, p) ==
    CASE k = 1 -> Pattern1(t, p)
      [] k = 2 -> Pattern2(t, p)
      [] k = 3 -> Pattern3(t, p)
      [] k = 4 -> Pattern4(t, p)
      [] k = 5 -> Pattern5(t, p)
      [] k = 6 -> Pattern6(t, p)
      [] k = 7 -> Pattern7(t, p)
      [] k = 8 -> Pattern8(t, p)
      [] k = 9 -> Pattern9(t, p)

\* pattern.finditer(t) from position p on: the non-overlapping matches, left
\* to right, each as <<start, end>> (end is the position after the match)
RECURSIVE FindSpansFrom(_, _, _)
FindSpansFrom(k, t, p) ==
    IF p > Len(t) THEN <<>>
    ELSE LET e == PatternEnd(k, t, p)
         IN  IF e = NoMatch THEN FindSpansFrom(k, t, p + 1)
             ELSE << <<p, e>> >> \o FindSpansFrom(k, t, e)

FindSpans(k, t) == FindSpansFrom(k, t, 1)

\* pattern.findall(t): no pattern has a capturing group, so each element is
\* the matched text
FindAll(k, t) ==
    LET spans == FindSpans(k, t)
    IN  [i \in 1..Len(spans) |-> SubSeq(t, spans[i][1], spans[i][2] - 1)]

\* the loop over self.price_patterns with each pattern's matches put in front
\* of the earlier ones instead of after them
RECURSIVE AllMatches_Prepend(_, _)
AllMatches_Prepend(t, k) ==
    IF k = 0 THEN <<>> ELSE FindAll(k, t) \o AllMatches_Prepend(t, k - 1)

\* the loop over self.price_patterns: all_matches after patterns 1..k
RECURSIVE AllMatches(_, _)
AllMatches(t, k) ==
    IF k = 0 THEN <<>> ELSE AllMatches(t, k - 1) \o FindAll(k, t)

\* re.sub(r'[^\d$.,]', '', price.strip())
CleanPrice(price) ==
    SelectSeq(Strip(price), LAMBDA c : IsDigit(c) \/ c \in {"$", ".", ","})

HasDigit(s) == \E i \in 1..Len(s) : IsDigit(s[i])

\* the body of the loop over all_matches: what one match adds to cleaned_prices
CleanedEntry(price) ==
    LET clean_price == CleanPrice(price)
    IN  IF clean_price /= <<>> /\ HasDigit(clean_price)
        THEN IF clean_price[1] /= "$" THEN << <<"$">> \o clean_price >>
             ELSE <<clean_price>>
        ELSE <<>>

RECURSIVE CleanedPrices(_)
CleanedPrices(all_matches) ==
    IF all_matches = <<>> THEN <<>>
    ELSE CleanedEntry(Head(all_matches)) \o CleanedPrices(Tail(all_matches))

\* find_prices_in_text returning cleaned_prices as it is, repeats included
FindPricesInText_NoDedup(text) ==
    IF text = <<>> THEN <<>>
    ELSE CleanedPrices(AllMatches(text, NumPricePatterns))

\* find_prices_in_text
FindPricesInText(text) ==
    IF text = <<>> THEN <<>>
    ELSE DictFromKeys(CleanedPrices(AllMatches(text, NumPricePatterns)))

-----------------------------------------------------------------------------
(* Ordering of strings, digests                                            *)

\* the characters of the model in code-point order (what sorted() compares)
CodePointOrder ==
    <<"\t", "\n", "\r", " ", "!", "\"", "#", "$", "%", "'", "(", ")", ",", "-", ".", "/",
      "0", "1", "2", "3", "4", "5", "6", "7", "8", "9", ":", "<", ">", "?">>
    \o UpperLetters \o <<"_">> \o LowerLetters \o <<"{", "|", "}">>

\* ord(c)
Ord(c) == CHOOSE i \in 1..Len(CodePointOrder) : CodePointOrder[i] = c

\* a < b for two strings
RECURSIVE StrLess(_, _)
StrLess(a, b) ==
    IF b = <<>> THEN FALSE
    ELSE IF a = <<>> THEN TRUE
    ELSE IF a[1] /= b[1] THEN Ord(a[1]) < Ord(b[1])
    ELSE StrLess(Tail(a), Tail(b))

\* sorted(xs) for a list of strings
RECURSIVE Sorted(_)
Sorted(xs) ==
    IF xs = <<>> THEN <<>>
    ELSE LET m == CHOOSE i \in 1..Len(xs) :
                      \A j \in 1..Len(xs) : ~StrLess(xs[j], xs[i])
         IN  <<xs[m]>> \o Sorted(SubSeq(xs, 1, m - 1) \o SubSeq(xs, m + 1, Len(xs)))

\* hashlib.md5(t.encode()).hexdigest(): a digest is modelled as collision-free,
\* a value that is equal for equal texts only
MD5(t) == [md5 |-> t]

\* hashlib.md5(t.encode()).hexdigest()[:16]: the first half of the digest,
\* collision-free as well
MD5Prefix16(t) == [md5_16 |-> t]

-----------------------------------------------------------------------------
(* Text cleaning, splitting and the technical-noise detector               *)

\* text.split(c): the pieces between the occurrences of the character c
RECURSIVE Split(_, _)
Split(t, c) ==
    IF \E i \in 1..Len(t) : t[i] = c
    THEN LET i == CHOOSE n \in 1..Len(t) : t[n] = c /\ \A m \in 1..(n - 1) : t[m] /= c
         IN  <<SubSeq(t, 1, i - 1)>> \o Split(SubSeq(t, i + 1, Len(t)), c)
    ELSE <<t>>

\* re.sub(r'\s+', ' ', t): every run of whitespace becomes one space
RECURSIVE CollapseWhitespace(_)
CollapseWhitespace(t) ==
    IF t = <<>> THEN <<>>
    ELSE IF IsSpace(t[1])
         THEN <<" ">> \o CollapseWhitespace(SubSeq(t, SkipSpaces(t, 1), Len(t)))
         ELSE <<t[1]>> \o CollapseWhitespace(Tail(t))

\* where the tag <[^>]+> that starts at p ends, or NoMatch: "<", at least one
\* character that is not ">", then ">"
TagEnd(t, p) ==
    IF At(t, p) /= "<" \/ At(t, p + 1) = ">" THEN NoMatch
    ELSE IF \E q \in (p + 2)..Len(t) : t[q] = ">"
         THEN 1 + (CHOOSE q \in (p + 2)..Len(t) :
                        t[q] = ">" /\ \A m \in (p + 2)..(q - 1) : t[m] /= ">")
         ELSE NoMatch

\* html_tag_pattern.sub(' ', t)
RECURSIVE StripTagsFrom(_, _)
StripTagsFrom(t, p) ==
    IF p > Len(t) THEN <<>>
    ELSE IF TagEnd(t, p) /= NoMatch THEN <<" ">> \o StripTagsFrom(t, TagEnd(t, p))
    ELSE <<t[p]>> \o StripTagsFrom(t, p + 1)

\* clean_text_fast
CleanTextFast(text) ==
    IF text = <<>> THEN <<>>
    ELSE Strip(CollapseWhitespace(StripTagsFrom(text, 1)))

\* a literal anywhere in t, under re.IGNORECASE
ContainsCI(t, lit) == \E p \in 1..(Len(t) + 1) : MatchLit(t, p, lit) /= NoMatch

\* the literal alternatives of technical_patterns
TechnicalLiterals ==
    { <<"m", "a", "r", "g", "i", "n", "-", "t", "o", "p">>,
      <<"p", "a", "d", "d", "i", "n", "g">>,
      <<"b", "o", "r", "d", "e", "r", "-", "w", "i", "d", "t", "h">>,
      <<"b", "a", "c", "k", "g", "r", "o", "u", "n", "d", "-", "c", "o", "l", "o", "r">>,
      <<"s", "l", "u", "g">>, <<"v", "e", "r">>,
      <<"o", "p", "t", "i", "o", "n", "s">>, <<"e", "l", "e", "m", "e", "n", "t", "s">>,
      <<"s", "e", "t", "t", "i", "n", "g", "s">>,
      <<"p", "x">>, <<"e", "m">>, <<"r", "e", "m">>, <<"%", "\"">> }

IsQuote(c) == c \in {"\"", "'"}

\* [\w-]+ from p: the position after the run, NoMatch when the run is empty
RECURSIVE SkipWordDash(_, _)
SkipWordDash(t, p) ==
    IF IsWord(At(t, p)) \/ At(t, p) = "-" THEN SkipWordDash(t, p + 1) ELSE p

WordDashRun(t, p) ==
    IF p = NoMatch \/ SkipWordDash(t, p) = p THEN NoMatch ELSE SkipWordDash(t, p)

\* one character of a class at p
OneOf(t, p, Class(_)) ==
    IF p = NoMatch THEN NoMatch ELSE IF Class(At(t, p)) THEN p + 1 ELSE NoMatch

\* \d+ from p
DigitsPlus(t, p) ==
    IF p = NoMatch \/ DigitRun(t, p) = 0 THEN NoMatch ELSE p + DigitRun(t, p)

\* ["'][\w-]+["']:\s*["'] from p (the head of a quoted key and value)
QuotedKeyColonQuote(t, p) ==
    OneOf(t, SkipSpaces(t, MatchLit(t,
        OneOf(t, WordDashRun(t, OneOf(t, p, IsQuote)), IsQuote), <<":">>)), IsQuote)

\* {\s*["'][\w-]+["']:\s*["']
TechnicalJsonObject(t, p) ==
    QuotedKeyColonQuote(t, SkipSpaces(t, MatchLit(t, p, <<"{">>)))

\* rgba?\(\d+,\d+,\d+
TechnicalRgb(t, p) ==
    LET q == MatchLit(t, p, <<"r", "g", "b">>)
        open == MatchLit(t, IF q /= NoMatch /\ LowerChar(At(t, q)) = "a" THEN q + 1 ELSE q,
                         <<"(">>)
    IN  DigitsPlus(t, MatchLit(t, DigitsPlus(t, MatchLit(t, DigitsPlus(t, open),
                   <<",">>)), <<",">>))

\* ["'][\w-]+["']:\s*["'][\w-]+["']
TechnicalKeyValue(t, p) ==
    OneOf(t, WordDashRun(t, QuotedKeyColonQuote(t, p)), IsQuote)

\* [^\x20-\x7E]: anything but a printable ASCII character
NotPrintableAscii(c) ==
    ~ \E i \in 4..Len(CodePointOrder) : CodePointOrder[i] = c

\* the replacement character U+FFFD, held as one character
ReplacementChar == "U+FFFD"

\* technical_patterns.search(t): does any alternative match anywhere in t
TechnicalSearch(t) ==
    \/ \E lit \in TechnicalLiterals : ContainsCI(t, lit)
    \/ \E p \in 1..Len(t) :
          \/ TechnicalJsonObject(t, p) /= NoMatch
          \/ TechnicalRgb(t, p) /= NoMatch
          \/ TechnicalKeyValue(t, p) /= NoMatch
          \/ \A k \in 0..4 : p + k <= Len(t) /\ NotPrintableAscii(t[p + k])
          \/ \A k \in 0..2 : p + k <= Len(t) /\ t[p + k] = ReplacementChar

-----------------------------------------------------------------------------
(* PDF text: extract_gpl_format_prices, extract_price_lines_from_pdf       *)

\* ^ and $ under re.MULTILINE
IsLineStart(t, p) == p = 1 \/ At(t, p - 1) = "\n"
IsLineEnd(t, p) == p = Len(t) + 1 \/ At(t, p) = "\n"

\* the character classes the runs below are made of
InClass(class, c) ==
    CASE class = "space" -> IsSpace(c)            \* \s
      [] class = "dot" -> c = "."                 \* \.
      [] class = "digit_or_comma" -> IsDigit(c) \/ c = ","    \* [\d,]

\* the length of the run of characters of a class starting at p
RECURSIVE RunLength(_, _, _)
RunLength(t, p, class) ==
    IF p >= 1 /\ p <= Len(t) /\ InClass(class, t[p])
    THEN 1 + RunLength(t, p + 1, class)
    ELSE 0

\* \s*$ from e: the whitespace run is given back one character at a time until
\* a line end is reached
RECURSIVE TailEndFrom(_, _, _)
TailEndFrom(t, e, m) ==
    IF IsLineEnd(t, e + m) THEN e + m
    ELSE IF m = 0 THEN NoMatch
    ELSE TailEndFrom(t, e, m - 1)

TailEnd(t, e) == TailEndFrom(t, e, RunLength(t, e, "space"))

NoGplMatch == [end |-> NoMatch, service |-> <<>>, price |-> <<>>]

\* the price group and what follows it, from s:
\*   (\$?\s*[\d,]+(?:\.\d{2})?)\s*$      ("$" required when dollarRequired)
\* as [start, stop, end]: the group is t[start..stop-1], the match ends at end.
\* Every quantifier here has one choice that can succeed: the longest.
PriceGroup(t, s, dollarRequired) ==
    LET a == IF At(t, s) = "$" THEN s + 1 ELSE s
        b == SkipSpaces(t, a)
        c == b + RunLength(t, b, "digit_or_comma")
        d == IF DecOpt(t, c, 2) /= <<>> THEN c + 3 ELSE c
    IN  IF s = NoMatch \/ (dollarRequired /\ At(t, s) /= "$") \/ c = b
        THEN [start |-> s, stop |-> NoMatch, end |-> NoMatch]
        ELSE [start |-> s, stop |-> d, end |-> TailEnd(t, d)]

\* where the price group starts when the service (.+?) ends at q, for the
\* three patterns whose service is lazy; NoMatch when the separator is absent
\*   1: \.{2,}\s*    2: \s+    4: \s{3,}
GplSeparatorEnd(k, t, q) ==
    CASE k = 1 -> IF RunLength(t, q, "dot") >= 2
                  THEN SkipSpaces(t, q + RunLength(t, q, "dot")) ELSE NoMatch
      [] k = 2 -> IF RunLength(t, q, "space") >= 1
                  THEN q + RunLength(t, q, "space") ELSE NoMatch
      [] k = 4 -> IF RunLength(t, q, "space") >= 3
                  THEN q + RunLength(t, q, "space") ELSE NoMatch

GplLazyTry(k, t, q) == PriceGroup(t, GplSeparatorEnd(k, t, q), k = 2)

\* patterns 1, 2 and 4 at line start p: the service is the shortest run of
\* characters other than newline after which the rest matches
GplLazyMatch(k, t, p) ==
    LET ends == { q \in (p + 1)..Len(t) :
                    /\ \A m \in p..(q - 1) : t[m] /= "\n"
                    /\ GplLazyTry(k, t, q).end /= NoMatch }
    IN  IF ends = {} THEN NoGplMatch
        ELSE LET q == CHOOSE x \in ends : \A y \in ends : x <= y
                 g == GplLazyTry(k, t, q)
             IN  [end |-> g.end, service |-> SubSeq(t, p, q - 1),
                  price |-> SubSeq(t, g.start, g.stop - 1)]

\* where the run of [^|] that starts at p stops: the first bar, or the end
FirstBar(t, p) ==
    LET bars == { x \in p..Len(t) : t[x] = "|" }
    IN  IF bars = {} THEN Len(t) + 1 ELSE CHOOSE x \in bars : \A y \in bars : x <= y

\* pattern 3 at line start p:  ^([^|]+)\s*\|\s*.*?\|\s*(price)\s*$
\* [^|]+ runs to the first bar (newlines included); the second bar is the
\* nearest one on the same line after which the rest matches
GplTableMatch(t, p) ==
    LET bar1 == FirstBar(t, p)
        from == SkipSpaces(t, bar1 + 1)
        bars == { x \in from..Len(t) :
                    /\ t[x] = "|"
                    /\ \A m \in from..(x - 1) : t[m] /= "\n"
                    /\ PriceGroup(t, SkipSpaces(t, x + 1), FALSE).end /= NoMatch }
    IN  IF bar1 = p \/ bar1 > Len(t) \/ bars = {} THEN NoGplMatch
        ELSE LET x == CHOOSE b \in bars : \A y \in bars : b <= y
                 g == PriceGroup(t, SkipSpaces(t, x + 1), FALSE)
             IN  [end |-> g.end, service |-> SubSeq(t, p, bar1 - 1),
                  price |-> SubSeq(t, g.start, g.stop - 1)]

NumGplPatterns == 4

\* gpl_patterns[k - 1].match(t, p)
GplMatchAt(k, t, p) ==
    IF ~IsLineStart(t, p) THEN NoGplMatch
    ELSE IF k = 3 THEN GplTableMatch(t, p)
    ELSE GplLazyMatch(k, t, p)

\* the body of the loop over matches: (full_line, [price])
GplEntry(m) ==
    LET service == Strip(m.service)
        price == IF Strip(m.price)[1] /= "$" THEN <<"$">> \o Strip(m.price)
                 ELSE Strip(m.price)
    IN  [line |-> service \o <<":", " ">> \o price, prices |-> <<price>>]

\* the first line start after p, where the search for a match goes on (every
\* pattern starts with ^)
NextLineStart(t, p) ==
    LET starts == { q \in (p + 1)..Len(t) : t[q - 1] = "\n" }
    IN  IF starts = {} THEN Len(t) + 1
        ELSE CHOOSE q \in starts : \A y \in starts : q <= y

\* gpl_patterns[k - 1].findall(t), each match turned into its entry
RECURSIVE GplEntriesFrom(_, _, _)
GplEntriesFrom(k, t, p) ==
    IF p > Len(t) THEN <<>>
    ELSE LET m == GplMatchAt(k, t, p)
         IN  IF m.end = NoMatch THEN GplEntriesFrom(k, t, NextLineStart(t, p))
             ELSE <<GplEntry(m)>> \o GplEntriesFrom(k, t, m.end)

RECURSIVE GplEntriesUpTo(_, _)
GplEntriesUpTo(t, k) ==
    IF k = 0 THEN <<>> ELSE GplEntriesUpTo(t, k - 1) \o GplEntriesFrom(k, t, 1)

\* extract_gpl_format_prices
ExtractGplFormatPrices(text) == GplEntriesUpTo(text, NumGplPatterns)

\* the body of the loop of extract_price_lines_from_pdf: what one line adds
PdfPriceLineEntry(rawLine) ==
    LET line == Strip(rawLine)
        prices == FindPricesInText(line)
        clean_line == Strip(CollapseWhitespace(line))
    IN  IF line = <<>> \/ Len(line) < 10 THEN <<>>
        ELSE IF prices /= <<>> /\ ~TechnicalSearch(SubSeq(clean_line, 1, Min(100, Len(clean_line))))
             THEN << [line |-> clean_line, prices |-> prices] >>
             ELSE <<>>

RECURSIVE PdfPriceLineEntries(_)
PdfPriceLineEntries(lines) ==
    IF lines = <<>> THEN <<>>
    ELSE PdfPriceLineEntry(Head(lines)) \o PdfPriceLineEntries(Tail(lines))

\* extract_price_lines_from_pdf
ExtractPriceLinesFromPdf(pdf_text) ==
    IF pdf_text = <<>> THEN <<>>
    ELSE PdfPriceLineEntries(Split(pdf_text, "\n"))

\* the terms that make a document a General Price List
GplTerms ==
    { <<"G", "E", "N", "E", "R", "A", "L", " ", "P", "R", "I", "C", "E", " ", "L", "I", "S", "T">>,
      <<"G", "P", "L">>,
      <<"P", "R", "I", "C", "E", " ", "L", "I", "S", "T">>,
      <<"F", "U", "N", "E", "R", "A", "L", " ", "P", "R", "I", "C", "E", "S">> }

\* is_gpl of process_pdf_fast
IsGpl(pdf_text) == \E term \in GplTerms : Contains(Upper(pdf_text), term)

\* the candidate price lines of process_pdf_fast: the GPL entries first when the
\* document is a GPL, then the standard lines
CandidatePriceLines(pdf_text) ==
    (IF IsGpl(pdf_text) THEN ExtractGplFormatPrices(pdf_text) ELSE <<>>)
        \o ExtractPriceLinesFromPdf(pdf_text)

\* "Remove duplicates while preserving order": an entry is kept when the hash of
\* its line was not seen before
RECURSIVE UniquePriceLines(_)
UniquePriceLines(price_lines) ==
    IF price_lines = <<>> THEN <<>>
    ELSE LET init == UniquePriceLines(SubSeq(price_lines, 1, Len(price_lines) - 1))
             last == price_lines[Len(price_lines)]
         IN  IF \E i \in 1..Len(init) : MD5Prefix16(init[i].line) = MD5Prefix16(last.line)
             THEN init
             ELSE Append(init, last)

\* all_prices of process_pdf_fast: the prices of every unique line, in order
RECURSIVE PricesOfLines(_)
PricesOfLines(lines) ==
    IF lines = <<>> THEN <<>> ELSE Head(lines).prices \o PricesOfLines(Tail(lines))

\* the characters that stand for U+0000 (held as one character)
NulChar == "U+0000"

CountOf(t, c) == Cardinality({i \in 1..Len(t) : t[i] = c})

\* c.isprintable() or c.isspace()
IsPrintableOrSpace(c) == c /= NulChar

\* is_readable_text
IsReadableText(text) ==
    IF text = <<>> \/ Len(Strip(text)) < 5 THEN FALSE
    ELSE IF CountOf(text, NulChar) > 0 \/ 5 * CountOf(text, ReplacementChar) > Len(text)
         THEN FALSE
    ELSE 5 * Cardinality({i \in 1..Len(text) : IsPrintableOrSpace(text[i])}) > 3 * Len(text)

\* The bytes of a PDF are held as what the two backends extract from them
\* ("" when a backend fails, is missing, or cannot decrypt the document).
\* extract_text_from_pdf
ExtractTextFromPdf(pdf_content) ==
    LET first == pdf_content.pdfplumber
        text == IF first = <<>> \/ Len(Strip(first)) < 50 THEN pdf_content.pypdf2 ELSE first
    IN  IF text /= <<>> /\ IsReadableText(text) THEN text ELSE <<>>

\* pdf_text[:1000]
SignaturePrefixLen == 1000

\* content_signature of process_pdf_fast
ContentSignature(pdf_text) ==
    MD5(SubSeq(pdf_text, 1, Min(SignaturePrefixLen, Len(pdf_text))))

\* os.path.basename(path): what follows the last slash
RECURSIVE Basename(_)
Basename(path) ==
    IF path = <<>> \/ path[Len(path)] = "/" THEN <<>>
    ELSE Append(Basename(SubSeq(path, 1, Len(path) - 1)), path[Len(path)])

\* re.sub(r'[^\w\-_\.]', '_', filename)
SanitizeFilename(name) ==
    [i \in 1..Len(name) |->
        IF IsWord(name[i]) \/ name[i] \in {"-", "_", "."} THEN name[i] ELSE "_"]

\* the filename process_pdf_fast saves a PDF under; now is int(time.time()) in digits
PdfFilename(pdf_url, now) ==
    LET base == Basename(pdf_url.path)
    IN  SanitizeFilename(
            IF base = <<>> \/ ~EndsWith(base, <<".", "p", "d", "f">>)
            THEN <<"d", "o", "c", "_">> \o now \o <<".", "p", "d", "f">>
            ELSE base)
-----------------------------------------------------------------------------
(* extract_price_excerpts_fast: the excerpts each source brings            *)

IsSentenceEnd(c) == c \in {".", "!", "?"}

\* re.split(r'[.!?]+', t): the pieces between the runs of ".", "!" and "?"
RECURSIVE SplitSentences(_)
SplitSentences(t) ==
    IF \E i \in 1..Len(t) : IsSentenceEnd(t[i])
    THEN LET i == CHOOSE n \in 1..Len(t) :
                      IsSentenceEnd(t[n]) /\ \A m \in 1..(n - 1) : ~IsSentenceEnd(t[m])
             j == CHOOSE n \in (i + 1)..(Len(t) + 1) :
                      /\ n = Len(t) + 1 \/ ~IsSentenceEnd(t[n])
                      /\ \A m \in (i + 1)..(n - 1) : IsSentenceEnd(t[m])
         IN  <<SubSeq(t, 1, i - 1)>> \o SplitSentences(SubSeq(t, j, Len(t)))
    ELSE <<t>>

Excerpt(source, text, prices, type) ==
    [source |-> source, text |-> text, prices |-> prices, type |-> type]

\* the excerpt of a piece of text, if it has prices
ExcerptIfPrices(source, text, prices, type) ==
    IF prices /= <<>> THEN <<Excerpt(source, text, prices, type)>> ELSE <<>>

\* what one line of a page text brings: "line" is the stripped line
PageLineCandidate(url, line) ==
    IF Len(line) < 20 THEN <<>>
    ELSE ExcerptIfPrices(url, line, FindPricesInText(line), "webpage")

\* what one sentence of a page text brings: "sentence" is the stripped sentence
PageSentenceCandidate(url, sentence) ==
    IF Len(sentence) < 20 \/ TechnicalSearch(sentence) THEN <<>>
    ELSE ExcerptIfPrices(url, sentence, FindPricesInText(sentence), "webpage")

RECURSIVE PageLineCandidates(_, _, _)
PageLineCandidates(url, lines, n) ==
    IF n = 0 THEN <<>>
    ELSE PageLineCandidates(url, lines, n - 1) \o PageLineCandidate(url, Strip(lines[n]))

RECURSIVE PageSentenceCandidates(_, _, _)
PageSentenceCandidates(url, sentences, n) ==
    IF n = 0 THEN <<>>
    ELSE PageSentenceCandidates(url, sentences, n - 1)
            \o PageSentenceCandidate(url, Strip(sentences[n]))

\* the body of "for url, text in results['page_texts'].items()": the lines
\* with prices, then the sentences with prices
PageCandidates(url, text) ==
    IF text = <<>> THEN <<>>
    ELSE PageLineCandidates(url, Split(text, "\n"), Len(Split(text, "\n")))
            \o PageSentenceCandidates(url, SplitSentences(text), Len(SplitSentences(text)))

\* the body of "for pdf_url, price_lines in results['pdf_price_lines'].items()"
PdfLineCandidates(pdf_url, price_lines) ==
    [k \in 1..Len(price_lines) |->
        Excerpt(pdf_url, price_lines[k].line, price_lines[k].prices, "pdf")]

\* [l for l in context_lines if l]
RECURSIVE NonEmpty(_)
NonEmpty(parts) ==
    IF parts = <<>> THEN <<>>
    ELSE (IF Head(parts) /= <<>> THEN <<Head(parts)>> ELSE <<>>) \o NonEmpty(Tail(parts))

\* context_text for the i-th line (counted from 1): the line before, the line
\* and the line after, stripped and joined by " | "
ContextText(lines, i) ==
    Join(NonEmpty((IF i > 1 THEN <<Strip(lines[i - 1])>> ELSE <<>>)
                    \o <<Strip(lines[i])>>
                    \o (IF i < Len(lines) THEN <<Strip(lines[i + 1])>> ELSE <<>>)),
         <<" ", "|", " ">>)

PdfContextCandidate(pdf_url, lines, i) ==
    IF Len(Strip(lines[i])) < 10 THEN <<>>
    ELSE ExcerptIfPrices(pdf_url, ContextText(lines, i),
                         FindPricesInText(Strip(lines[i])), "pdf_context")

RECURSIVE PdfContextCandidatesUpTo(_, _, _)
PdfContextCandidatesUpTo(pdf_url, lines, n) ==
    IF n = 0 THEN <<>>
    ELSE PdfContextCandidatesUpTo(pdf_url, lines, n - 1)
            \o PdfContextCandidate(pdf_url, lines, n)

\* the body of "for pdf_url, text in results['pdf_texts'].items()"
PdfContextCandidates(pdf_url, text) ==
    IF text = <<>> THEN <<>>
    ELSE PdfContextCandidatesUpTo(pdf_url, Split(text, "\n"), Len(Split(text, "\n")))

\* "if excerpt_hash not in seen_hashes"
IsNewHash_Always(excerpt_hash, seen) == TRUE
IsNewHash(excerpt_hash, seen) == excerpt_hash \notin seen

\* seen_hashes and all_excerpts after the candidates were gone through in order
RECURSIVE AddExcerpts(_, _, _)
AddExcerpts(seen, excerpts, candidates) ==
    IF candidates = <<>> THEN [seen_hashes |-> seen, all_excerpts |-> excerpts]
    ELSE IF IsNewHash(MD5Prefix16(Head(candidates).text), seen)
         THEN AddExcerpts(seen \cup {MD5Prefix16(Head(candidates).text)},
                          Append(excerpts, Head(candidates)), Tail(candidates))
         ELSE AddExcerpts(seen, excerpts, Tail(candidates))


-----------------------------------------------------------------------------
(* URLs: urlparse, normalize_url, is_valid_url                             *)

\* A URL is held the way urlparse splits it: scheme, netloc, path, query and
\* fragment, each a string.
Url(scheme, netloc, path, query, fragment) ==
    [scheme |-> scheme, netloc |-> netloc, path |-> path,
     query |-> query, fragment |-> fragment]

\* str.rstrip('/')
RECURSIVE RStripSlash(_)
RStripSlash(t) ==
    IF t /= <<>> /\ t[Len(t)] = "/" THEN RStripSlash(SubSeq(t, 1, Len(t) - 1)) ELSE t

\* the URL as a string, after its scheme: netloc, path, ?query, #fragment
UrlTail(u) ==
    u.netloc \o u.path
        \o (IF u.query /= <<>> THEN <<"?">> \o u.query ELSE <<>>)
        \o (IF u.fragment /= <<>> THEN <<"#">> \o u.fragment ELSE <<>>)

\* normalize_url: urlunparse(parsed._replace(fragment="", query="")).rstrip('/')
\* (with query and fragment gone the string ends with the path, or with the
\* netloc when the path is empty; a netloc has no slash)
NormalizeUrl(u) == [u EXCEPT !.fragment = <<>>, !.query = <<>>, !.path = RStripSlash(u.path)]

\* skip_exts of is_valid_url
SkipExts ==
    { <<".", "j", "p", "g">>, <<".", "j", "p", "e", "g">>, <<".", "p", "n", "g">>,
      <<".", "g", "i", "f">>, <<".", "c", "s", "s">>, <<".", "j", "s">>,
      <<".", "i", "c", "o">>, <<".", "s", "v", "g">>, <<".", "w", "o", "f", "f">>,
      <<".", "w", "o", "f", "f", "2">>, <<".", "t", "t", "f">>, <<".", "e", "o", "t">> }

\* is_valid_url(url, base_domain)
IsValidUrl(u, base) ==
    IF u.netloc /= <<>> /\ u.netloc /= base.netloc THEN FALSE
    ELSE ~ \E ext \in SkipExts : EndsWith(Lower(u.path), ext)

Chars_pdf == <<".", "p", "d", "f">>

\* link.lower().endswith('.pdf') on the URL string
LinkEndsWithPdf(u) == EndsWith(Lower(UrlTail(u)), Chars_pdf)

\* pdf_links of scrape_page_fast
RECURSIVE PdfLinksOf(_)
PdfLinksOf(links) ==
    IF links = <<>> THEN <<>>
    ELSE (IF LinkEndsWithPdf(Head(links)) THEN <<Head(links)>> ELSE <<>>)
            \o PdfLinksOf(Tail(links))

-----------------------------------------------------------------------------
(* make_request: one call, against the answers the server gives to its      *)
(* successive requests                                                     *)

\* what the server answers to one request: an HTTP status, or no answer at all
\* (session.get raises: timeout, connection refused)
ConnError == 0

max_retries == 2

\* a reading of raise_for_status() that lets the 5xx statuses through
IsErrorStatus_ClientOnly(status) == status >= 400 /\ status < 500

\* response.raise_for_status() raises for 4xx and 5xx
IsErrorStatus(status) == status >= 400 /\ status < 600

\* make_request gave up: the exception of the last attempt is raised
RequestFailed(status, used, minimal) ==
    [ok |-> FALSE, status |-> status, requests |-> used, minimal |-> minimal]

RequestReturned(status, used, minimal) ==
    [ok |-> TRUE, status |-> status, requests |-> used, minimal |-> minimal]

\* the "except Exception" branch of an attempt, and the loop of make_request:
\* answers[used + 1] is what the next request gets, minimal counts the requests
\* sent with the minimal header set
RECURSIVE MakeRequestFrom(_, _, _, _)
MakeRequestFrom(answers, attempt, used, minimal) ==
    LET first == answers[used + 1]
        Retry(status, nowUsed, nowMinimal) ==
            IF attempt < max_retries - 1
            THEN MakeRequestFrom(answers, attempt + 1, nowUsed, nowMinimal)
            ELSE RequestFailed(status, nowUsed, nowMinimal)
    IN  IF first = ConnError THEN Retry(first, used + 1, minimal)
        ELSE IF first = 403 THEN
            LET second == answers[used + 2]
            IN  IF second = ConnError \/ IsErrorStatus(second)
                THEN Retry(second, used + 2, minimal + 1)
                ELSE RequestReturned(second, used + 2, minimal + 1)
        ELSE IF first = 429 \/ first \in {502, 503, 504} THEN
            \* "continue" before the last attempt, raise_for_status() on it
            Retry(first, used + 1, minimal)
        ELSE IF IsErrorStatus(first) THEN Retry(first, used + 1, minimal)
        ELSE RequestReturned(first, used + 1, minimal)

\* make_request(url)
MakeRequest(answers) == MakeRequestFrom(answers, 0, 0, 0)

-----------------------------------------------------------------------------
(* STATE MACHINES                                                          *)
-----------------------------------------------------------------------------
(* The web: what the crawler's requests are answered with                  *)

Http == <<"h", "t", "t", "p">>
Host == <<"s">>
OtherHost == <<"o">>

\* a URL of the crawled site
Page(path) == Url(Http, Host, path, <<>>, <<>>)

Root == Page(<<"/">>)
RootNorm == Page(<<>>)
PageA == Page(<<"/", "a">>)
PageASlash == Page(<<"/", "a", "/">>)
PageB == Page(<<"/", "b">>)
PageC == Page(<<"/", "c">>)
Image == Page(<<"/", "i", ".", "p", "n", "g">>)
Foreign == Url(Http, OtherHost, <<"/", "x">>, <<>>, <<>>)
Pdf1 == Page(<<"/", "p", ".", "p", "d", "f">>)
Pdf2 == Page(<<"/", "q", ".", "p", "d", "f">>)
Pdf3 == Url(Http, OtherHost, <<"/", "r", ".", "P", "D", "F">>, <<>>, <<>>)
PdfMissing == Page(<<"/", "m", ".", "p", "d", "f">>)

\* the server answers every request of a call with 200
AlwaysOk == <<200, 200, 200, 200>>

NoPdfContent == [pdfplumber |-> <<>>, pypdf2 |-> <<>>]

\* what a URL is answered with: the statuses of the successive requests, the
\* content-type header, what BeautifulSoup finds in the body (the title, the
\* text of get_text() once script, style, meta and link elements are gone, the
\* href of every anchor joined to the page's URL) and what the PDF backends
\* extract from the body
Html(answers, title, body, links) ==
    [answers |-> answers, content_type |-> <<"t", "e", "x", "t", "/", "h", "t", "m", "l">>, title |-> title,
     body |-> body, links |-> links, content |-> NoPdfContent, parser |-> "lxml"]

PdfDoc(answers, content_type, pdfplumber, pypdf2) ==
    [answers |-> answers, content_type |-> content_type, title |-> "No title",
     body |-> <<"%", "P", "D", "F", "-", "1", ".", "4">>, links |-> <<>>,
     content |-> [pdfplumber |-> pdfplumber, pypdf2 |-> pypdf2], parser |-> "lxml"]

\* a body on which BeautifulSoup(response.text, 'lxml') raises while html.parser
\* does not, and one on which both raise
LxmlFails(doc) == [doc EXCEPT !.parser = "html.parser"]
Unparsable(doc) == [doc EXCEPT !.parser = "none"]

NotFound == Html(<<404, 404, 404, 404>>, "Not Found", <<"N", "o", "t", " ", "F", "o", "u", "n", "d">>, <<>>)

\* a page of SignaturePrefixLen characters in lines too short to hold a price
Preamble == [i \in 1..SignaturePrefixLen |-> IF i % 32 = 0 THEN "\n" ELSE "x"]

\* two PDF texts that agree on their first SignaturePrefixLen characters and
\* differ after them, and a short one that only PyPDF2 can read
PdfText1 == Preamble \o <<"C", "a", "s", "k", "e", "t", " ", "$", "1", "0", "0", " ", "e", "a", "c", "h">>
PdfText2 == Preamble \o <<"U", "r", "n", " ", "f", "r", "o", "m", " ", "$", "2", "0", "0", " ", "u", "p">>
PdfText3 == <<"G", "P", "L", "\n", "D", "i", "r", "e", "c", "t", " ", "C", "r", "e", "m", "a", "t", "i", "o", "n", ".", ".", ".", ".", ".", "$", "9", "9", "5", "\n", "U", "r", "n", " ", "$", "5", ",", " ", "$", "5">>

\* a site whose home page fans out to two pages that link the same third page
FanSite ==
    (RootNorm :> Html(AlwaysOk, "Home", <<"W", "e", "l", "c", "o", "m", "e", " ", " ", "t", "o", " ", "o", "u", "r", " ", "<", "b", ">", "h", "o", "m", "e", "<", "/", "b", ">">>, <<PageA, PageB>>))
    @@ (PageA :> Html(AlwaysOk, "Urns", <<"U", "r", "n", " ", " ", " ", "$", "5">>, <<PageC, Pdf1>>))
    @@ (PageB :> Html(AlwaysOk, "Boxes", <<"B", "o", "x", " ", "$", "5", " ", "\n">>,
                      <<PageC, PageASlash, Pdf2, Image, Foreign>>))
    @@ (PageC :> Html(AlwaysOk, "Caskets", <<"C", "a", "s", "k", "e", "t", " ", "1", "0", "0", " ", "U", "S", "D", " ", "o", "r", " ", "$", "5">>, <<Root, Pdf3>>))
    @@ (Pdf1 :> PdfDoc(AlwaysOk, <<"a", "p", "p", "l", "i", "c", "a", "t", "i", "o", "n", "/", "p", "d", "f">>, PdfText1, <<>>))
    @@ (Pdf2 :> PdfDoc(AlwaysOk, <<"a", "p", "p", "l", "i", "c", "a", "t", "i", "o", "n", "/", "p", "d", "f">>, PdfText2, <<>>))
    @@ (Pdf3 :> PdfDoc(AlwaysOk, <<"a", "p", "p", "l", "i", "c", "a", "t", "i", "o", "n", "/", "o", "c", "t", "e", "t", "-", "s", "t", "r", "e", "a", "m">>, <<"G", "P", "L">>, PdfText3))

\* a site of pages in a row: the home page answers at the second request, one
\* page cannot be fetched, one PDF is linked from two pages and one is missing
ChainSite ==
    (RootNorm :> Html(<<503, 200, 200, 200>>, "Home", <<"P", "r", "i", "c", "e", "s", " ", "f", "r", "o", "m", " ", "$", "5">>, <<PageA>>))
    @@ (PageA :> Html(AlwaysOk, "About", <<"A", "b", "o", "u", "t", " ", "u", "s">>, <<PageB, PageC, Pdf1>>))
    @@ (PageB :> Html(<<ConnError, ConnError, ConnError, ConnError>>, "", <<>>, <<>>))
    @@ (PageC :> Html(<<403, 200, 200, 200>>, "Plans", <<"P", "l", "a", "n", ":", " ", "$", "5">>, <<Pdf1, PdfMissing>>))
    @@ (Pdf1 :> PdfDoc(AlwaysOk, <<"a", "p", "p", "l", "i", "c", "a", "t", "i", "o", "n", "/", "p", "d", "f">>, PdfText1, <<>>))

\* a site of one page, without prices, links or PDFs
BareSite ==
    (RootNorm :> Html(AlwaysOk, "Home", <<"U", "n", "d", "e", "r", " ", "c", "o", "n", "s", "t", "r", "u", "c", "t", "i", "o", "n">>, <<>>))

PdfText4 == <<"O", "u", "r", " ", "G", "e", "n", "e", "r", "a", "l", " ", "P", "r", "i", "c", "e", " ", "L", "i", "s", "t", "\n", "D", "i", "r", "e", "c", "t", " ", "C", "r", "e", "m", "a", "t", "i", "o", "n", ".", ".", ".", ".", ".", "$", "9", "9", "5", "\n", "U", "r", "n", " ", "f", "r", "o", "m", " ", "$", "2", "0", "0", " ", "u", "p", ",", " ", "w", "h", "i", "l", "e", " ", "s", "u", "p", "p", "l", "i", "e", "s", " ", "l", "a", "s", "t">>

\* a site of one page with a price and a link to a PDF
BrochureSite ==
    (RootNorm :> Html(AlwaysOk, "Home", <<"P", "l", "a", "n", "s", " ", "f", "r", "o", "m", " ", "$", "9", "9", "5">>, <<Pdf1>>))
    @@ (Pdf1 :> PdfDoc(AlwaysOk, <<"a", "p", "p", "l", "i", "c", "a", "t", "i", "o", "n", "/", "p", "d", "f">>, PdfText4, <<>>))

\* a site whose root cannot be parsed and links to a page only html.parser reads
BrokenSite ==
    (RootNorm :> Unparsable(Html(AlwaysOk, "Home", <<"S", "a", "l", "e", " ", "$", "7">>, <<PageA>>)))
    @@ (PageA :> LxmlFails(Html(AlwaysOk, "About", <<"F", "e", "e", " ", "$", "8">>, <<>>)))

\* a site whose root is read by html.parser only and links to a page that
\* cannot be parsed
FallbackSite ==
    (RootNorm :> LxmlFails(Html(AlwaysOk, "Home", <<"F", "e", "e", " ", "$", "8">>, <<PageA>>)))
    @@ (PageA :> Unparsable(Html(AlwaysOk, "About", <<"S", "a", "l", "e", " ", "$", "7">>, <<PageB>>)))

\* links that urljoin leaves as they are: one without host, one to a subdomain;
\* and the page /a written with a query, a fragment and two trailing slashes
Mailto == Url(<<"m", "a", "i", "l", "t", "o">>, <<>>, <<"x", "@", "s">>, <<>>, <<>>)
Subdomain == Url(Http, <<"w", ".", "s">>, <<"/", "a">>, <<>>, <<>>)
PageAQuery == Url(Http, Host, <<"/", "a">>, <<"q", "=", "1">>, <<>>)
PageAFragment == Url(Http, Host, <<"/", "a", "/">>, <<>>, <<"f">>)
PageASlashes == Page(<<"/", "a", "/", "/">>)

\* requests has no connection adapter for mailto: session.get raises
NoAdapter == Html(<<ConnError, ConnError, ConnError, ConnError>>, "", <<>>, <<>>)

\* a site whose home page links out of the site and to one page in many
\* spellings
ContactSite ==
    (RootNorm :> Html(AlwaysOk, "Home", <<"C", "a", "l", "l", " ", "u", "s">>,
                      <<Mailto, Subdomain, Foreign, Image, PageAQuery, PageAFragment,
                        PageASlashes, PageA>>))
    @@ (PageA :> Html(AlwaysOk, "About", <<"F", "e", "e", " ", "$", "8">>, <<PageASlash>>))
    @@ (Mailto :> NoAdapter)

\* PDFs of one basename in two folders, and PDFs whose path does not end in
\* ".pdf" while their URL does
PdfX == Page(<<"/", "x", "/", "p", ".", "p", "d", "f">>)
PdfY == Page(<<"/", "y", "/", "p", ".", "p", "d", "f">>)
PdfQuery == Url(Http, Host, <<"/", "d">>, <<"f", "=", "a", ".", "p", "d", "f">>, <<>>)
PdfUpper == Page(<<"/", "t", ".", "P", "D", "F">>)

\* a PDF that only PyPDF2 reads, with the given text
ScannedPdf(text) ==
    PdfDoc(AlwaysOk, <<"a", "p", "p", "l", "i", "c", "a", "t", "i", "o", "n", "/", "p", "d", "f">>, <<>>, text)

\* two sites whose home page links two PDFs, none a General Price List: with
\* one basename, and with paths that do not end in ".pdf"
CatalogSite ==
    (RootNorm :> Html(AlwaysOk, "Catalog", <<"O", "u", "r", " ", "c", "a", "t", "a", "l", "o", "g">>, <<PdfX, PdfY>>))
    @@ (PdfX :> ScannedPdf(<<"B", "a", "s", "i", "c", " ", "u", "r", "n", " ", "$", "2", "0", "0">>))
    @@ (PdfY :> ScannedPdf(<<"O", "a", "k", " ", "c", "a", "s", "k", "e", "t", " ", "$", "9", "0", "0">>))

ScansSite ==
    (RootNorm :> Html(AlwaysOk, "Scans", <<"O", "u", "r", " ", "s", "c", "a", "n", "s">>, <<PdfQuery, PdfUpper>>))
    @@ (PdfQuery :> ScannedPdf(<<"F", "l", "o", "w", "e", "r", "s", " ", "f", "r", "o", "m", " ", "$", "5", "0", " ", "u", "p">>))
    @@ (PdfUpper :> ScannedPdf(<<"C", "a", "n", "d", "l", "e", " ", "$", "5", " ", "e", "a", "c", "h">>))

\* a site of two pages with the same prices, met in a different order
SwappedSite ==
    (RootNorm :> Html(AlwaysOk, "Home", <<"U", "r", "n", " ", "$", "5", " ", "a", "n", "d", " ", "b", "o", "x", " ", "$", "7">>, <<PageA>>))
    @@ (PageA :> Html(AlwaysOk, "Offers", <<"B", "o", "x", " ", "$", "7", " ", "a", "n", "d", " ", "u", "r", "n", " ", "$", "5">>, <<>>))

\* pending_pdfs[:25]
PdfBatchCap == 25

\* ThreadPoolExecutor(max_workers=min(4, self.max_workers))
PdfPoolCap == 4

\* the largest number of PDF links on one page
MaxPending == 26

\* a site whose home page links one PDF PdfBatchCap times and then another
ManySite ==
    (RootNorm :> Html(AlwaysOk, "Home", <<"P", "r", "i", "c", "e", " ", "l", "i", "s", "t", "s">>,
                      [i \in 1..MaxPending |-> IF i <= PdfBatchCap THEN Pdf1 ELSE Pdf2]))
    @@ (Pdf1 :> PdfDoc(AlwaysOk, <<"a", "p", "p", "l", "i", "c", "a", "t", "i", "o", "n", "/", "p", "d", "f">>, <<"U", "r", "n", " ", "$", "5">>, <<>>))
    @@ (Pdf2 :> PdfDoc(AlwaysOk, <<"a", "p", "p", "l", "i", "c", "a", "t", "i", "o", "n", "/", "p", "d", "f">>, <<"B", "o", "x", " ", "$", "7">>, <<>>))

\* the sites with more PDF links than the PDF phase takes
LargeSites == {"many"}

Sites == {"fan", "chain", "bare", "brochure", "broken", "fallback", "contact", "catalog", "scans", "swapped", "many"}

Web(s) ==
    CASE s = "fan" -> FanSite
      [] s = "chain" -> ChainSite
      [] s = "bare" -> BareSite
      [] s = "brochure" -> BrochureSite
      [] s = "broken" -> BrokenSite
      [] s = "fallback" -> FallbackSite
      [] s = "contact" -> ContactSite
      [] s = "catalog" -> CatalogSite
      [] s = "scans" -> ScansSite
      [] s = "swapped" -> SwappedSite
      [] s = "many" -> ManySite

\* what the site s answers a request for url with
Respond(s, url) == IF url \in DOMAIN Web(s) THEN Web(s)[url] ELSE NotFound

\* the answers the start URL may give to the initial connection test
ConnectScripts ==
    { AlwaysOk, <<503, 200, 200, 200>>, <<403, 200, 403, 200>>,
      <<ConnError, ConnError, ConnError, ConnError>>, <<403, 403, 403, 403>>,
      <<500, 500, 500, 500>> }

-----------------------------------------------------------------------------
(* One crawl: scrape_website_parallel with its page and PDF workers        *)

\* the largest page cap and worker count a crawl is configured with
MaxPages == 4
MaxWorkers == 2

\* self.max_workers = min(max_workers, 8)
WorkerCap == 8

\* the worker counts a scraper is constructed with: the small ones and one
\* above the cap
RequestedWorkers == 1..MaxWorkers \cup {WorkerCap + 1}

\* a dict as the sequence of its <<key, value>> items in insertion order
DictKeys(d) == {d[i][1] : i \in 1..Len(d)}

\* d[key] = value
DictSet(d, key, value) ==
    IF key \in DictKeys(d)
    THEN [i \in 1..Len(d) |-> IF d[i][1] = key THEN <<key, value>> ELSE d[i]]
    ELSE Append(d, <<key, value>>)

\* d[key]
DictGet(d, key) == d[CHOOSE i \in 1..Len(d) : d[i][1] = key][2]

\* the results dict scrape_website_parallel starts from
EmptyResults(url) ==
    [start_url |-> url, pages_with_prices |-> <<>>, all_prices |-> <<>>,
     downloaded_pdfs |-> <<>>, total_pages_scraped |-> 0, page_texts |-> <<>>,
     pdf_texts |-> <<>>, pdf_price_lines |-> <<>>]

\* self.lock is held by the worker of the i-th PDF future, or by nobody
NoHolder == 0

\* the "except" branch of scrape_page_fast
ErrorPage_NoTitle(url) ==
    [url |-> url, prices |-> <<>>, links |-> <<>>, pdf_links |-> <<>>,
     title |-> "No title", text |-> <<>>]
ErrorPage(url) ==
    [url |-> url, prices |-> <<>>, links |-> <<>>, pdf_links |-> <<>>,
     title |-> "Error", text |-> <<>>]

\* scrape_page_fast(url) against the site s
ScrapePageFast(s, url) ==
    LET doc == Respond(s, url)
        response == MakeRequest(doc.answers)
        page_text == CleanTextFast(doc.body)
    IN  IF ~response.ok \/ doc.parser = "none" THEN ErrorPage(url)
        ELSE [url |-> url, prices |-> FindPricesInText(page_text), links |-> doc.links,
              pdf_links |-> PdfLinksOf(doc.links), title |-> doc.title,
              text |-> page_text]

\* the price signature of a page
PriceSig_Unsorted(prices) == MD5(Join(prices, <<"|">>))
PriceSig(prices) == MD5(Join(Sorted(prices), <<"|">>))

\* the links of a consumed page that go to the frontier, normalized
RECURSIVE LinksToQueue(_, _, _, _)
LinksToQueue(links, visited, base, cap) ==
    IF links = <<>> THEN <<>>
    ELSE LET norm_link == NormalizeUrl(Head(links))
         IN  (IF /\ norm_link \notin visited
                 /\ IsValidUrl(norm_link, base)
                 /\ Cardinality(visited) < cap
              THEN <<norm_link>> ELSE <<>>)
                 \o LinksToQueue(Tail(links), visited, base, cap)

\* the body of the loop over as_completed(future_to_url), on results
WithPage_CountsPricedPages(res, url, page_data, signatures) ==
    LET counted == [res EXCEPT !.total_pages_scraped =
                                  IF page_data.prices /= <<>> THEN @ + 1 ELSE @]
    IN  IF page_data.prices /= <<>> /\ PriceSig(page_data.prices) \notin signatures
        THEN [counted EXCEPT
                !.pages_with_prices =
                    Append(@, [url |-> url, title |-> page_data.title,
                               prices |-> page_data.prices]),
                !.all_prices = @ \o page_data.prices,
                !.page_texts = DictSet(@, url, page_data.text)]
        ELSE counted
WithPage(res, url, page_data, signatures) ==
    LET counted == [res EXCEPT !.total_pages_scraped = @ + 1]
    IN  IF page_data.prices /= <<>> /\ PriceSig(page_data.prices) \notin signatures
        THEN [counted EXCEPT
                !.pages_with_prices =
                    Append(@, [url |-> url, title |-> page_data.title,
                               prices |-> page_data.prices]),
                !.all_prices = @ \o page_data.prices,
                !.page_texts = DictSet(@, url, page_data.text)]
        ELSE counted

\* what process_pdf_fast has computed when it reaches "with self.lock"
PdfData(doc, pdf_text, unique_price_lines) ==
    [prices |-> PricesOfLines(unique_price_lines),
     price_lines |-> unique_price_lines,
     text |-> pdf_text,
     is_gpl |-> IsGpl(pdf_text),
     content_signature |-> ContentSignature(pdf_text),
     content |-> doc.content]

\* process_pdf_fast from the response on: <<>> when it returns None before
\* it reaches the lock
PdfFromResponse(doc, pdf_url, response, pdf_text) ==
    IF ~response.ok THEN <<>>
    ELSE IF /\ ~Contains(Lower(doc.content_type), Tail(Chars_pdf))
            /\ ~LinkEndsWithPdf(pdf_url)
         THEN <<>>
    ELSE IF pdf_text = <<>> THEN <<>>
    ELSE <<PdfData(doc, pdf_text, UniquePriceLines(CandidatePriceLines(pdf_text)))>>

PdfFromDoc(doc, pdf_url) ==
    PdfFromResponse(doc, pdf_url, MakeRequest(doc.answers), ExtractTextFromPdf(doc.content))

\* process_pdf_fast(pdf_url, _) up to "with self.lock", against the site s
PdfExtracted(s, pdf_url) == PdfFromDoc(Respond(s, pdf_url), pdf_url)

\* the future of a PDF worker that has got that far
FetchedPdf_FailureKeepsWorker(future, extracted) ==
    [future EXCEPT !.at = IF extracted = <<>> THEN "failed" ELSE "waiting",
                   !.pdf_data = extracted]
FetchedPdf(future, extracted) ==
    [future EXCEPT !.at = IF extracted = <<>> THEN "done" ELSE "waiting",
                   !.pdf_data = extracted]

\* every URL a crawl of one of the sites can come to request
KnownUrls ==
    UNION { DOMAIN Web(s) \cup
            UNION { {l, NormalizeUrl(l)} :
                    l \in UNION {Range(Web(s)[u].links) : u \in DOMAIN Web(s)} }
          : s \in Sites }

\* what the workers compute from the answers of each site, worked out once
ScrapedPages == [s \in Sites |-> [u \in KnownUrls |-> ScrapePageFast(s, u)]]
ExtractedPdfs == [s \in Sites |-> [u \in KnownUrls |-> PdfExtracted(s, u)]]

\* "with self.lock" can be entered
LockAvailable_Always(l) == TRUE
LockAvailable(l) == l = NoHolder

\* where process_pdf_fast goes after "if content_signature in self.pdf_signatures"
AfterSignatureCheck_NoReturn(known) == "inserting"
AfterSignatureCheck(known) == IF known THEN "done" ELSE "inserting"

\* who holds the lock after the signature check: "return None" inside the
\* with block releases it, else the worker is still inside
LockAfterCheck_KeptOnReturn(next, l) == l
LockAfterCheck(next, l) == IF next = "done" THEN NoHolder ELSE l

\* the values int(time.time()) may have while a crawl saves its PDFs, in digits
Clock == {<<"1">>, <<"2">>}

\* open(filepath, 'wb').write(content)
WriteFile(fs, name, content) ==
    {f \in fs : f.name /= name} \cup {[name |-> name, content |-> content]}

\* the body of "if pdf_data:" in the loop over as_completed(pdf_futures)
WithPdf(res, pdf_url, source_url, filename, pdf_data) ==
    [res EXCEPT
        !.downloaded_pdfs =
            Append(@, [pdf_url |-> pdf_url, source_page |-> source_url,
                       filename |-> filename, prices |-> pdf_data.prices]),
        !.pdf_texts = DictSet(@, pdf_url, pdf_data.text),
        !.pdf_price_lines = DictSet(@, pdf_url, pdf_data.price_lines),
        !.all_prices = @ \o pdf_data.prices]

\* find_prices_in_text is not being looked at on its own
PricesIdle == ptext = <<>> /\ pstage = "idle" /\ pmatches = <<>> /\ pprices = <<>>

\* no call of make_request is followed step by step
RequestIdle ==
    /\ mr_pc = "idle" /\ mr_answers = <<>> /\ mr_attempt = 0 /\ mr_sent = <<>>
    /\ mr_result = <<>> /\ mr_kwargs = <<>>

\* no pool of threads is followed through make_request
CounterIdle ==
    /\ request_count = 0 /\ tpc = <<>> /\ tloaded = <<>> /\ tattempt = <<>>
    /\ attempts_made = 0

\* the PDF futures are not being counted
BatchIdle ==
    /\ b_futures = <<>> /\ b_taken = 0 /\ b_running = 0 /\ b_consumed = 0 /\ b_downloaded = 0

\* no call of call_gemini_api is followed step by step
GeminiIdle ==
    /\ g_pc = "idle" /\ g_max_retries = 0 /\ g_attempt = 0 /\ g_posts = <<>>
    /\ g_slept = <<>> /\ g_result = <<>>

HarnessesIdle == PricesIdle /\ RequestIdle /\ CounterIdle /\ BatchIdle /\ GeminiIdle

\* extract_price_excerpts_fast has not been called
ExcerptsIdle ==
    /\ xpc = "idle" /\ xindex = 0 /\ seen_hashes = {} /\ all_excerpts = <<>>
    /\ excerpt_file = <<>> /\ excerpt_ret = "none" /\ xrun = 0 /\ xfirst = <<>> /\ xinput = <<>>

\* no request to /scrape is being handled
HandlerIdle ==
    /\ hpc = "idle" /\ request = <<>> /\ temp_filename = <<>> /\ reply = <<>>
    /\ hclass = "none" /\ hlog = <<>> /\ formatted_response = <<>>
    /\ unlink_result = "none"

\* a scraper that was just constructed, before scrape_website_parallel(start_url)
FreshScraper ==
    /\ max_pages \in 1..MaxPages
    /\ max_workers \in {Min(w, WorkerCap) : w \in RequestedWorkers}
    /\ start_url = Root
    /\ pc = "connect"
    /\ test_response = <<>>
    /\ queue = <<start_url>>
    /\ visited_urls = {}
    /\ batch = <<>>
    /\ futures = <<>>
    /\ results = EmptyResults(start_url)
    /\ pending_pdfs = <<>>
    /\ page_signatures = {}
    /\ pdf_signatures = {}
    /\ lock = NoHolder
    /\ pdf_futures = <<>>
    /\ files = {}
    /\ dispatched = <<>>
    /\ HarnessesIdle
    /\ ExcerptsIdle
    /\ HandlerIdle

Init == site \in Sites \ LargeSites /\ FreshScraper

configVars == <<site, max_pages, max_workers, start_url>>
pdfVars == <<pdf_signatures, lock, pdf_futures, files>>

\* where the driver goes after the connection test: on, or "return results"
AfterConnect_Continue(response) == "loop"
AfterConnect(response) == IF response.ok THEN "loop" ELSE "returned"

\* "Testing initial connection": make_request(start_url) returns or raises
InitialConnection ==
    /\ pc = "connect"
    /\ \E answers \in ConnectScripts :
          /\ test_response' = <<MakeRequest(answers)>>
          /\ pc' = AfterConnect(MakeRequest(answers))
    /\ UNCHANGED <<configVars, queue, visited_urls, batch, futures, results,
                   pending_pdfs, page_signatures, pdfVars, dispatched, nonCrawlVars>>

\* "if url not in self.visited_urls and self.is_valid_url(url, base_domain)"
ShouldVisit_AnyValid(url, visited, base) == IsValidUrl(url, base)
ShouldVisit(url, visited, base) == url \notin visited /\ IsValidUrl(url, base)

\* "while queue and len(self.visited_urls) < self.max_pages"
LoopContinues_WhileQueue(q, visited, cap) == q /= <<>>
LoopContinues(q, visited, cap) == q /= <<>> /\ Cardinality(visited) < cap

\* the head of the while loop: enter the body with an empty batch, or leave
\* the loop and the page executor
LoopHead ==
    /\ pc = "loop"
    /\ IF LoopContinues(queue, visited_urls, max_pages)
       THEN pc' = "fill"
       ELSE pc' = "pdfs"
    /\ batch' = <<>>
    /\ UNCHANGED <<configVars, test_response, queue, visited_urls, futures, results, pending_pdfs,
                   page_signatures, pdfVars, dispatched, nonCrawlVars>>

\* "while queue and len(batch) < self.max_workers * 2": the fill goes on
BatchFilling_WhileQueue(q, b, workers) ==
    q /= <<>>
BatchFilling(q, b, workers) ==
    q /= <<>> /\ Len(b) < workers * 2

\* one round of the fill
FillBatch ==
    /\ pc = "fill"
    /\ BatchFilling(queue, batch, max_workers)
    /\ LET url == NormalizeUrl(Head(queue))
       IN  /\ queue' = Tail(queue)
           /\ IF ShouldVisit(url, visited_urls, start_url)
              THEN /\ visited_urls' = visited_urls \cup {url}
                   /\ batch' = Append(batch, url)
              ELSE UNCHANGED <<visited_urls, batch>>
    /\ UNCHANGED <<configVars, pc, test_response, futures, results, pending_pdfs,
                   page_signatures, pdfVars, dispatched, nonCrawlVars>>

\* the batch is full or the queue empty: "if not batch: break", else every URL
\* of the batch is submitted to the page executor
SubmitBatch ==
    /\ pc = "fill"
    /\ ~BatchFilling(queue, batch, max_workers)
    /\ IF batch = <<>>
       THEN /\ pc' = "pdfs"
            /\ UNCHANGED <<futures, dispatched>>
       ELSE /\ pc' = "await"
            /\ futures' = [i \in 1..Len(batch) |->
                              [url |-> batch[i], at |-> "queued", page_data |-> <<>>]]
            /\ dispatched' = dispatched \o batch
    /\ UNCHANGED <<configVars, test_response, queue, visited_urls, batch, results, pending_pdfs,
                   page_signatures, pdfVars, nonCrawlVars>>

\* a page worker runs scrape_page_fast for the i-th future of the batch: the
\* executor has max_workers threads and hands the futures out in order
ScrapePage(i) ==
    /\ pc = "await"
    /\ futures[i].at = "queued"
    /\ Cardinality({j \in 1..(i - 1) : futures[j].at = "queued"}) < max_workers
    /\ futures' = [futures EXCEPT ![i].at = "done",
                                  ![i].page_data = <<ScrapedPages[site][futures[i].url]>>]
    /\ UNCHANGED <<configVars, pc, test_response, queue, visited_urls, batch, results, pending_pdfs,
                   page_signatures, pdfVars, dispatched, nonCrawlVars>>

\* the body of "for future in as_completed(future_to_url)" for a completed future
ConsumePage(i) ==
    /\ pc = "await"
    /\ futures[i].at = "done"
    /\ LockAvailable(lock)
    /\ LET url == futures[i].url
           page_data == futures[i].page_data[1]
       IN  /\ results' = WithPage(results, url, page_data, page_signatures)
           /\ page_signatures' =
                 IF page_data.prices /= <<>>
                 THEN page_signatures \cup {PriceSig(page_data.prices)}
                 ELSE page_signatures
           /\ pending_pdfs' = pending_pdfs \o
                 [k \in 1..Len(page_data.pdf_links) |-> <<page_data.pdf_links[k], url>>]
           /\ queue' = queue \o
                 LinksToQueue(page_data.links, visited_urls, start_url, max_pages)
    /\ futures' = [futures EXCEPT ![i].at = "consumed"]
    /\ UNCHANGED <<configVars, pc, test_response, visited_urls, batch, pdfVars, dispatched,
                   nonCrawlVars>>

\* "for future in as_completed(fs)" ends when the body has run for every
\* future of fs
AsCompletedExhausted_AfterFirst(fs) ==
    \E i \in 1..Len(fs) : fs[i].at = "consumed"
AsCompletedExhausted(fs) ==
    \A i \in 1..Len(fs) : fs[i].at = "consumed"

\* as_completed is exhausted: back to the head of the loop
BatchDone ==
    /\ pc = "await"
    /\ AsCompletedExhausted(futures)
    /\ pc' = "loop"
    /\ UNCHANGED <<configVars, test_response, queue, visited_urls, batch, futures, results,
                   pending_pdfs, page_signatures, pdfVars, dispatched, nonCrawlVars>>

\* pending_pdfs[:25]
PdfBatch(pending) == SubSeq(pending, 1, Min(PdfBatchCap, Len(pending)))

\* "if pending_pdfs:" the first PdfBatchCap pairs are submitted to the PDF
\* executor, else "return results"
SubmitPdfs ==
    /\ pc = "pdfs"
    /\ IF pending_pdfs = <<>>
       THEN /\ pc' = "returned"
            /\ UNCHANGED pdf_futures
       ELSE /\ pc' = "pdf_await"
            /\ pdf_futures' =
                 [i \in DOMAIN PdfBatch(pending_pdfs) |->
                     [pdf_url |-> PdfBatch(pending_pdfs)[i][1],
                      source_url |-> PdfBatch(pending_pdfs)[i][2],
                      at |-> "queued", pdf_data |-> <<>>, duplicate |-> FALSE,
                      filename |-> <<>>, returned |-> FALSE]]
    /\ UNCHANGED <<configVars, test_response, queue, visited_urls, batch, futures, results,
                   pending_pdfs, page_signatures, pdf_signatures, lock, files, dispatched,
                   nonCrawlVars>>

pageVars == <<test_response, queue, visited_urls, batch, futures, pending_pdfs, page_signatures, dispatched>>

\* a PDF worker takes the i-th future (the executor has min(4, max_workers)
\* threads and hands the futures out in order) and runs process_pdf_fast up to
\* "with self.lock"
PdfFetch(i) ==
    /\ pc = "pdf_await"
    /\ pdf_futures[i].at = "queued"
    /\ \A j \in 1..(i - 1) : pdf_futures[j].at /= "queued"
    /\ Cardinality({j \in 1..Len(pdf_futures) :
                        pdf_futures[j].at \in {"waiting", "checking", "inserting", "saving"}})
          < Min(PdfPoolCap, max_workers)
    /\ pdf_futures' =
          [pdf_futures EXCEPT
              ![i] = FetchedPdf(@, ExtractedPdfs[site][pdf_futures[i].pdf_url])]
    /\ UNCHANGED <<configVars, pc, pageVars, results, pdf_signatures, lock, files, nonCrawlVars>>

\* "with self.lock:" the worker of the i-th future enters
PdfAcquire(i) ==
    /\ pc = "pdf_await"
    /\ pdf_futures[i].at = "waiting"
    /\ LockAvailable(lock)
    /\ lock' = i
    /\ pdf_futures' = [pdf_futures EXCEPT ![i].at = "checking"]
    /\ UNCHANGED <<configVars, pc, pageVars, results, pdf_signatures, files, nonCrawlVars>>

\* "if content_signature in self.pdf_signatures: return None" (the lock is
\* released on the way out)
PdfCheck(i) ==
    /\ pc = "pdf_await"
    /\ pdf_futures[i].at = "checking"
    /\ LET known == pdf_futures[i].pdf_data[1].content_signature
                        \in pdf_signatures
           next == AfterSignatureCheck(known)
       IN  /\ pdf_futures' = [pdf_futures EXCEPT ![i].at = next, ![i].duplicate = known]
           /\ lock' = LockAfterCheck(next, lock)
    /\ UNCHANGED <<configVars, pc, pageVars, results, pdf_signatures, files, nonCrawlVars>>

\* "self.pdf_signatures[content_signature] = True" and the end of the with block
PdfInsert(i) ==
    /\ pc = "pdf_await"
    /\ pdf_futures[i].at = "inserting"
    /\ pdf_signatures' = pdf_signatures \cup
          {pdf_futures[i].pdf_data[1].content_signature}
    /\ lock' = NoHolder
    /\ pdf_futures' = [pdf_futures EXCEPT ![i].at = "saving"]
    /\ UNCHANGED <<configVars, pc, pageVars, results, files, nonCrawlVars>>

\* the filename is chosen and the file written, or writing fails and
\* process_pdf_fast returns None
PdfSave(i) ==
    /\ pc = "pdf_await"
    /\ pdf_futures[i].at = "saving"
    /\ \E now \in Clock, written \in BOOLEAN :
          LET filename == PdfFilename(pdf_futures[i].pdf_url, now)
          IN  IF written
              THEN /\ files' = WriteFile(files, filename,
                                   pdf_futures[i].pdf_data[1].content)
                   /\ pdf_futures' = [pdf_futures EXCEPT ![i].at = "done",
                                                         ![i].returned = TRUE,
                                                         ![i].filename = filename]
              ELSE /\ files' = files
                   /\ pdf_futures' = [pdf_futures EXCEPT ![i].at = "done"]
    /\ UNCHANGED <<configVars, pc, pageVars, results, pdf_signatures, lock, nonCrawlVars>>

\* the body of "for future in as_completed(pdf_futures)" for a completed future
ConsumePdf(i) ==
    /\ pc = "pdf_await"
    /\ pdf_futures[i].at = "done"
    /\ results' =
          IF pdf_futures[i].returned
          THEN WithPdf(results, pdf_futures[i].pdf_url, pdf_futures[i].source_url,
                       pdf_futures[i].filename,
                       pdf_futures[i].pdf_data[1])
          ELSE results
    /\ pdf_futures' = [pdf_futures EXCEPT ![i].at = "consumed"]
    /\ UNCHANGED <<configVars, pc, pageVars, pdf_signatures, lock, files, nonCrawlVars>>

\* as_completed is exhausted: "return results"
PdfsDone ==
    /\ pc = "pdf_await"
    /\ AsCompletedExhausted(pdf_futures)
    /\ pc' = "returned"
    /\ UNCHANGED <<configVars, pageVars, results, pdfVars, nonCrawlVars>>

Next ==
    \/ InitialConnection
    \/ LoopHead
    \/ FillBatch
    \/ SubmitBatch
    \/ \E i \in DOMAIN futures : ScrapePage(i)
    \/ \E i \in DOMAIN futures : ConsumePage(i)
    \/ BatchDone
    \/ SubmitPdfs
    \/ \E i \in DOMAIN pdf_futures : PdfFetch(i)
    \/ \E i \in DOMAIN pdf_futures : PdfAcquire(i)
    \/ \E i \in DOMAIN pdf_futures : PdfCheck(i)
    \/ \E i \in DOMAIN pdf_futures : PdfInsert(i)
    \/ \E i \in DOMAIN pdf_futures : PdfSave(i)
    \/ \E i \in DOMAIN pdf_futures : ConsumePdf(i)
    \/ PdfsDone

Spec == Init /\ [][Next]_vars

\* the crawl when the driver and the workers are scheduled and every request
\* is answered or fails in finite time: a step that can be taken is taken
\* (on the sites with more than one page)
FairSites == {"fan", "chain", "contact", "fallback"}
InitFair == Init /\ site \in FairSites
SpecFair == InitFair /\ [][Next]_vars /\ WF_vars(Next)

\* the calls that are not part of a crawl
otherVars == <<priceVars, requestVars, counterVars, geminiVars, excerptVars, handlerVars>>

\* "if pending_pdfs:" as in SubmitPdfs, the submitted pairs kept as a list
CountedSubmit ==
    /\ pc = "pdfs"
    /\ IF pending_pdfs = <<>>
       THEN /\ pc' = "returned"
            /\ UNCHANGED b_futures
       ELSE /\ pc' = "pdf_counted"
            /\ b_futures' = PdfBatch(pending_pdfs)
    /\ UNCHANGED <<configVars, pageVars, results, pdfVars, b_taken, b_running, b_consumed,
                   b_downloaded, otherVars>>

\* ThreadPoolExecutor(max_workers=min(4, self.max_workers))
PdfPoolSize(workers) == Min(PdfPoolCap, workers)

\* a free thread of the PDF executor takes the next submitted pair and calls
\* process_pdf_fast, which requests the PDF
CountedStart ==
    /\ pc = "pdf_counted"
    /\ b_taken < Len(b_futures)
    /\ b_running < PdfPoolSize(max_workers)
    /\ b_taken' = b_taken + 1
    /\ b_running' = b_running + 1
    /\ UNCHANGED <<configVars, pc, pageVars, results, pdfVars, b_futures, b_consumed,
                   b_downloaded, otherVars>>

\* a call of process_pdf_fast returns, with the PDF's data or with None
CountedFinish ==
    /\ pc = "pdf_counted"
    /\ b_running > 0
    /\ b_running' = b_running - 1
    /\ UNCHANGED <<configVars, pc, pageVars, results, pdfVars, b_futures, b_taken, b_consumed,
                   b_downloaded, otherVars>>

\* the body of "for future in as_completed(pdf_futures)" for a completed
\* future: "if pdf_data:" one more entry of results['downloaded_pdfs']
CountedConsume ==
    /\ pc = "pdf_counted"
    /\ b_consumed < b_taken - b_running
    /\ b_consumed' = b_consumed + 1
    /\ \E pdf_data \in BOOLEAN :
          b_downloaded' = IF pdf_data THEN b_downloaded + 1 ELSE b_downloaded
    /\ UNCHANGED <<configVars, pc, pageVars, results, pdfVars, b_futures, b_taken, b_running,
                   otherVars>>

\* as_completed is exhausted: "return results"
CountedDone ==
    /\ pc = "pdf_counted"
    /\ b_consumed = Len(b_futures)
    /\ pc' = "returned"
    /\ UNCHANGED <<configVars, pageVars, results, pdfVars, batchVars, otherVars>>

\* the crawl of a site with more PDF links than the PDF phase takes: the page
\* phase step by step, the PDF phase with its futures counted
NextCounted ==
    \/ InitialConnection
    \/ LoopHead
    \/ FillBatch
    \/ SubmitBatch
    \/ \E i \in DOMAIN futures : ScrapePage(i)
    \/ \E i \in DOMAIN futures : ConsumePage(i)
    \/ BatchDone
    \/ CountedSubmit
    \/ CountedStart
    \/ CountedFinish
    \/ CountedConsume
    \/ CountedDone

InitCounted == site \in LargeSites /\ FreshScraper
SpecCounted == InitCounted /\ [][NextCounted]_vars

\* no crawl is under way: the state of a scraper that was not constructed
CrawlIdle ==
    /\ site = "bare" /\ max_pages = 1 /\ max_workers = 1 /\ start_url = Root
    /\ pc = "idle" /\ test_response = <<>> /\ queue = <<>> /\ visited_urls = {} /\ batch = <<>>
    /\ futures = <<>> /\ results = EmptyResults(Root) /\ pending_pdfs = <<>>
    /\ page_signatures = {} /\ pdf_signatures = {} /\ lock = NoHolder
    /\ pdf_futures = <<>> /\ files = {} /\ dispatched = <<>>

\* the first SignaturePrefixLen characters of the text of a PDF future
TextPrefix(future) ==
    SubSeq(future.pdf_data[1].text, 1,
           Min(SignaturePrefixLen, Len(future.pdf_data[1].text)))

\* the worker of a PDF future went past the signature check without returning
PassedCheck(future) ==
    \/ future.at \in {"inserting", "saving"}
    \/ future.at \in {"done", "consumed"} /\ future.pdf_data /= <<>> /\ ~future.duplicate

\* C1 as stated: in every state of a crawl the visited set, the page fetches
\* dispatched and the pages counted in total_pages_scraped number at most
\* max_pages.
C1_VisitedWithinMaxPages ==
    pc /= "idle" =>
        /\ Cardinality(visited_urls) <= max_pages
        /\ Len(dispatched) <= max_pages
        /\ results.total_pages_scraped <= max_pages

\* C2: within one crawl every URL handed to a page worker is normalized and no
\* URL is handed to a page worker twice.
C2_DispatchedAtMostOnce ==
    /\ \A i \in DOMAIN dispatched : NormalizeUrl(dispatched[i]) = dispatched[i]
    /\ \A i, j \in DOMAIN dispatched : i /= j => dispatched[i] /= dispatched[j]

\* C2's case: two pages of one batch linked the same page, which has been
\* dispatched from the first of its two places in the queue while the second is
\* still there
C2_Witness ==
    \E u, a, b \in Range(dispatched) :
        /\ a /= b
        /\ u \in {NormalizeUrl(l) : l \in Range(Respond(site, a).links)}
        /\ u \in {NormalizeUrl(l) : l \in Range(Respond(site, b).links)}
        /\ \E k \in DOMAIN queue : NormalizeUrl(queue[k]) = u

\* C3: of the PDFs whose extracted text has the same first 1000 characters at
\* most one passes the signature check, so at most one is returned by
\* process_pdf_fast and at most one is listed in downloaded_pdfs, whatever the
\* interleaving of the PDF workers.
C3_OnePdfPerFingerprint ==
    /\ \A i, j \in DOMAIN pdf_futures :
          (i /= j /\ PassedCheck(pdf_futures[i]) /\ PassedCheck(pdf_futures[j]))
              => TextPrefix(pdf_futures[i]) /= TextPrefix(pdf_futures[j])
    /\ \A i, j \in DOMAIN results.downloaded_pdfs :
          i /= j =>
            LET text_i == DictGet(results.pdf_texts, results.downloaded_pdfs[i].pdf_url)
                text_j == DictGet(results.pdf_texts, results.downloaded_pdfs[j].pdf_url)
            IN  SubSeq(text_i, 1, Min(SignaturePrefixLen, Len(text_i)))
                    /= SubSeq(text_j, 1, Min(SignaturePrefixLen, Len(text_j)))

\* C3's case: two PDFs with different texts that agree on their first 1000
\* characters were processed; the one submitted later took the lock first and
\* is listed in downloaded_pdfs, the other was rejected
C3_Witness ==
    \E i, j \in DOMAIN pdf_futures :
        /\ j < i
        /\ pdf_futures[i].at = "consumed" /\ pdf_futures[j].at = "consumed"
        /\ pdf_futures[i].returned /\ pdf_futures[j].duplicate
        /\ pdf_futures[i].pdf_data[1].text /= pdf_futures[j].pdf_data[1].text
        /\ Len(pdf_futures[i].pdf_data[1].text) > SignaturePrefixLen
        /\ TextPrefix(pdf_futures[i]) = TextPrefix(pdf_futures[j])
        /\ \E k \in DOMAIN results.downloaded_pdfs :
              results.downloaded_pdfs[k].pdf_url = pdf_futures[i].pdf_url

\* C4: every step taken for a PDF that was rejected as duplicate content (the
\* rejection in the worker, the consumption of its future by the driver) leaves
\* results and the PDF folder as they are, and the worker returns nothing.
C4_DuplicateLeavesResults ==
    [][\A i \in DOMAIN pdf_futures :
          (/\ i \in DOMAIN pdf_futures'
           /\ pdf_futures'[i].duplicate
           /\ pdf_futures'[i] /= pdf_futures[i])
              => /\ results' = results
                 /\ files' = files
                 /\ pdf_futures'[i].at \in {"done", "consumed"}
                 /\ ~pdf_futures'[i].returned]_vars

\* C4's case: a PDF with prices was rejected as a duplicate of one that is
\* listed in downloaded_pdfs, and its future has been consumed
C4_Witness ==
    \E i \in DOMAIN pdf_futures :
        /\ pdf_futures[i].duplicate
        /\ pdf_futures[i].at = "consumed"
        /\ pdf_futures[i].pdf_data[1].prices /= <<>>
        /\ results.downloaded_pdfs /= <<>>
        /\ files /= {}

\* C9: when the initial connection has failed after all its retries, the crawl
\* has returned, its result is the empty one (no page counted, no page with
\* prices, no price, no PDF), no page or PDF worker was dispatched and the
\* visited set is as it was.
C9_ConnectionFailureReturnsEmpty ==
    (test_response /= <<>> /\ ~test_response[1].ok) =>
        /\ pc = "returned"
        /\ test_response[1].requests >= max_retries
        /\ results = EmptyResults(start_url)
        /\ results.total_pages_scraped = 0
        /\ results.pages_with_prices = <<>> /\ results.all_prices = <<>>
        /\ results.downloaded_pdfs = <<>>
        /\ dispatched = <<>> /\ futures = <<>> /\ pdf_futures = <<>>
        /\ visited_urls = {}

\* C9's case: the start URL answered 403 to every request, the retries with
\* the minimal headers included, and the crawl has returned
C9_Witness ==
    /\ pc = "returned"
    /\ test_response /= <<>>
    /\ ~test_response[1].ok
    /\ test_response[1].status = 403
    /\ test_response[1].minimal > 0

\* the fetch of a page future's URL fails: make_request raises
FetchFails(future) == ~MakeRequest(Respond(site, future.url).answers).ok

\* neither parser reads the body of a page future's URL
ParseFails(future) == Respond(site, future.url).parser = "none"

\* C11: every page future completes with a result for its own URL (nothing is
\* raised), and when the fetch or the parsing failed the result has title
\* 'Error' and empty prices, links, pdf_links and text.
C11_ScrapePageNeverRaises ==
    \A i \in DOMAIN futures :
        futures[i].at /= "queued" =>
            /\ futures[i].page_data /= <<>>
            /\ futures[i].page_data[1].url = futures[i].url
            /\ (FetchFails(futures[i]) \/ ParseFails(futures[i])) =>
                   /\ futures[i].page_data[1].title = "Error"
                   /\ futures[i].page_data[1].prices = <<>>
                   /\ futures[i].page_data[1].links = <<>>
                   /\ futures[i].page_data[1].pdf_links = <<>>
                   /\ futures[i].page_data[1].text = <<>>

\* C11's case: a batch is over in which the fetch of one page failed, and a
\* page that no parser reads was scraped in this crawl after a page read by
\* html.parser alone
C11_Witness ==
    /\ \E i \in DOMAIN futures :
          /\ futures[i].at = "consumed"
          /\ \/ FetchFails(futures[i])
             \/ /\ ParseFails(futures[i])
                /\ ~FetchFails(futures[i])
                /\ Respond(site, futures[i].url).body /= <<>>
                /\ \E u \in Range(dispatched) : Respond(site, u).parser = "html.parser"
    /\ results.total_pages_scraped >= 2

\* the content-type of the answer to a PDF future's request is PDF-like
PdfLikeContentType(future) ==
    Contains(Lower(Respond(site, future.pdf_url).content_type), <<"p", "d", "f">>)

\* C12 as stated: a PDF worker whose request was answered with a content-type
\* that is not PDF-like returns None without extracting text, recording a
\* signature or writing a file, also when the URL ends in .pdf.
C12_NonPdfContentTypeSkipped ==
    \A i \in DOMAIN pdf_futures :
        (/\ pdf_futures[i].at /= "queued"
         /\ MakeRequest(Respond(site, pdf_futures[i].pdf_url).answers).ok
         /\ ~PdfLikeContentType(pdf_futures[i]))
            => /\ pdf_futures[i].pdf_data = <<>>
               /\ ~pdf_futures[i].returned
               /\ pdf_futures[i].filename = <<>>

\* C15 as stated: every URL in the frontier or handed to a page worker has
\* the netloc of the start URL and a path that ends in none of the skipped
\* extensions (so links to other hosts, to subdomains and without host are
\* never queued or fetched).
C15_OnlyInScopeUrlsCrawled ==
    \A u \in Range(queue) \cup Range(dispatched) :
        /\ u.netloc = start_url.netloc
        /\ ~ \E ext \in SkipExts : EndsWith(Lower(u.path), ext)

\* str.removesuffix('/'): one trailing slash less
StripOneSlash(t) == IF t /= <<>> /\ t[Len(t)] = "/" THEN SubSeq(t, 1, Len(t) - 1) ELSE t

\* C16 as stated: of every link found on a fetched page normalize_url removes
\* the fragment, the query string and one trailing slash, and of the links
\* with one normal form at most one is handed to a page worker.
C16_NormalizeStripsOneSlash ==
    /\ \A i \in DOMAIN dispatched :
          \A k \in DOMAIN Respond(site, dispatched[i]).links :
             LET link == Respond(site, dispatched[i]).links[k]
             IN  NormalizeUrl(link) = [link EXCEPT !.fragment = <<>>, !.query = <<>>,
                                                   !.path = StripOneSlash(link.path)]
    /\ \A i, j \in DOMAIN dispatched :
          NormalizeUrl(dispatched[i]) = NormalizeUrl(dispatched[j]) => i = j

\* price_lines as the merge of both strategies would be: the GPL entries, then
\* the standard lines, without the entries whose line was seen before
MergedPriceLines(pdf_text) ==
    UniquePriceLines(ExtractGplFormatPrices(pdf_text) \o ExtractPriceLinesFromPdf(pdf_text))

MergedPriceLinesOfPdfs ==
    [s \in Sites |-> [u \in KnownUrls |->
        IF ExtractedPdfs[s][u] = <<>> THEN <<>>
        ELSE MergedPriceLines(ExtractedPdfs[s][u][1].text)]]

\* C18 as stated: the price_lines of every PDF from which text was extracted,
\* General Price List or not, are the deduplicated merge of the lines of the
\* GPL-specific extraction and of the standard extraction.
C18_BothStrategiesAlwaysMerged ==
    \A i \in DOMAIN pdf_futures :
        pdf_futures[i].pdf_data /= <<>> =>
            pdf_futures[i].pdf_data[1].price_lines
                = MergedPriceLinesOfPdfs[site][pdf_futures[i].pdf_url]

\* C19 as stated: no two entries of downloaded_pdfs share a filename, and the
\* file of every PDF process_pdf_fast returned holds the bytes of that PDF.
C19_EachPdfKeepsOwnFile ==
    /\ \A i, j \in DOMAIN results.downloaded_pdfs :
          i /= j => results.downloaded_pdfs[i].filename /= results.downloaded_pdfs[j].filename
    /\ \A i \in DOMAIN pdf_futures :
          pdf_futures[i].returned =>
              [name |-> pdf_futures[i].filename,
               content |-> pdf_futures[i].pdf_data[1].content] \in files

\* a PDF worker has started: some PDF future has left the executor's queue
PdfWorkerStarted == \E i \in DOMAIN pdf_futures : pdf_futures[i].at /= "queued"

\* C25: the two phases are strictly sequential. When a PDF worker has started,
\* every page worker has finished and the driver has consumed its result; and
\* from then on no page is handed to a page worker and no page worker runs.
C25_PhasesSequential ==
    /\ [](PdfWorkerStarted =>
            /\ \A i \in DOMAIN futures : futures[i].at = "consumed"
            /\ results.total_pages_scraped = Len(dispatched)
            /\ pc \in {"pdf_await", "returned"})
    /\ [][PdfWorkerStarted => futures' = futures /\ dispatched' = dispatched]_vars

\* a PDF worker runs after a crawl that took several batches of pages
C25_Witness ==
    /\ pc = "pdf_await"
    /\ PdfWorkerStarted
    /\ \E i \in DOMAIN pdf_futures : pdf_futures[i].at = "queued"
    /\ Len(dispatched) >= 3
    /\ Len(futures) < Len(dispatched)

\* the page fetches that are dispatched and whose result the driver has not
\* consumed yet
Unresolved == {i \in DOMAIN futures : futures[i].at /= "consumed"}

\* C26: at any moment at most 2 * max_workers page fetches are dispatched and
\* unresolved, and the URLs of a batch are dispatched only when the result of
\* every fetch of the batch before has been consumed.
C26_BatchBounded ==
    /\ [](Cardinality(Unresolved) <= 2 * max_workers)
    /\ [][dispatched' /= dispatched => Unresolved = {}]_vars

\* a full batch is in flight with none of its results consumed, while the
\* frontier still holds URLs that did not fit, after an earlier batch
C26_Witness ==
    /\ pc = "await"
    /\ Cardinality(Unresolved) = 2 * max_workers
    /\ queue /= <<>>
    /\ Len(dispatched) > Len(futures)

\* C27 as stated: a link ending in .pdf goes to the PDF pool alone. The links
\* a page feeds to the frontier and its PDF links are disjoint, and no URL
\* ending in .pdf is in the frontier or handed to a page worker.
C27_PdfLinksOnlyToPdfPool ==
    /\ \A k \in DOMAIN queue : ~LinkEndsWithPdf(queue[k])
    /\ \A k \in DOMAIN dispatched : ~LinkEndsWithPdf(dispatched[k])
    /\ \A i \in DOMAIN futures :
          futures[i].at /= "queued" =>
              LET page_data == futures[i].page_data[1]
              IN  Range(LinksToQueue(page_data.links, visited_urls, start_url, max_pages))
                      \cap Range(page_data.pdf_links) = {}

\* the workers whose work failed: a page worker that came back with the error
\* page, a PDF worker that came back with None
FailedPages == {k \in DOMAIN dispatched :
                    ScrapedPages[site][dispatched[k]] = ErrorPage(dispatched[k])}
FailedPdfs == {i \in DOMAIN pdf_futures :
                    pdf_futures[i].at \in {"done", "consumed"} /\ ~pdf_futures[i].returned}

\* C28: the failure of a worker stops neither its batch nor the crawl. A PDF
\* worker that fails yields None and adds nothing to results; the crawl
\* returns, and when it has, the result of every page worker and of every PDF
\* worker has been consumed and every PDF a worker returned is in results.
C28_FailuresContained ==
    /\ <>(pc = "returned")
    /\ [](\A i \in DOMAIN pdf_futures :
              pdf_futures[i].at \in {"done", "consumed"}
                  /\ (ExtractedPdfs[site][pdf_futures[i].pdf_url] = <<>>)
              => ~pdf_futures[i].returned)
    /\ [][\A i \in FailedPdfs :
              pdf_futures[i].at = "done" /\ pdf_futures'[i].at = "consumed"
                  => results' = results]_vars
    /\ [](pc = "returned" =>
              /\ AsCompletedExhausted(futures)
              /\ AsCompletedExhausted(pdf_futures)
              /\ results.total_pages_scraped = Len(dispatched)
              /\ \A i \in DOMAIN pdf_futures :
                    pdf_futures[i].returned =>
                        \E k \in DOMAIN results.downloaded_pdfs :
                            results.downloaded_pdfs[k].pdf_url = pdf_futures[i].pdf_url)

\* a crawl has returned after a page worker failed, a PDF worker failed, and a
\* PDF worker of the same batch returned its PDF
C28_Witness ==
    /\ pc = "returned"
    /\ FailedPages /= {}
    /\ FailedPdfs /= {}
    /\ \E i \in DOMAIN pdf_futures : pdf_futures[i].returned
    /\ results.downloaded_pdfs /= <<>>

\* the prices of a page as a set
PriceSet(prices) == Range(prices)

\* C30: no two entries of pages_with_prices have the same set of prices; a
\* page whose set of prices is that of an entry already there adds nothing to
\* pages_with_prices, all_prices or page_texts; and at every point the keys of
\* page_texts are the URLs of pages_with_prices, in the same order, each entry
\* with a non-empty list of prices.
C30_PagesDistinctByPriceSet ==
    /\ [](LET pages == results.pages_with_prices
          IN  /\ \A i, j \in DOMAIN pages :
                    PriceSet(pages[i].prices) = PriceSet(pages[j].prices) => i = j
              /\ \A i \in DOMAIN pages : pages[i].prices /= <<>>
              /\ Len(results.page_texts) = Len(pages)
              /\ \A i \in DOMAIN pages : results.page_texts[i][1] = pages[i].url)
    /\ [][\A i \in DOMAIN futures :
              /\ futures[i].at = "done" /\ futures'[i].at = "consumed"
              /\ \E k \in DOMAIN results.pages_with_prices :
                    PriceSet(results.pages_with_prices[k].prices)
                        = PriceSet(futures[i].page_data[1].prices)
              => /\ results'.pages_with_prices = results.pages_with_prices
                 /\ results'.all_prices = results.all_prices
                 /\ results'.page_texts = results.page_texts]_vars

\* a page has been consumed whose prices are those of an accepted page in
\* another order, and it was not accepted
C30_Witness ==
    \E i \in DOMAIN futures :
        /\ futures[i].at = "consumed"
        /\ futures[i].page_data[1].prices /= <<>>
        /\ \A k \in DOMAIN results.pages_with_prices :
              results.pages_with_prices[k].url /= futures[i].url
        /\ \E k \in DOMAIN results.pages_with_prices :
              /\ PriceSet(results.pages_with_prices[k].prices)
                    = PriceSet(futures[i].page_data[1].prices)
              /\ results.pages_with_prices[k].prices /= futures[i].page_data[1].prices

\* the content fingerprints of the PDFs in downloaded_pdfs
DownloadedSignatures ==
    {ExtractedPdfs[site][results.downloaded_pdfs[k].pdf_url][1].content_signature :
        k \in DOMAIN results.downloaded_pdfs}

\* C31 as stated: when the crawl has returned, every PDF that process_pdf_fast
\* rejected as duplicate content has its fingerprint among the PDFs of
\* downloaded_pdfs, and no fingerprint is recorded for a PDF that was not
\* returned.
C31_DuplicateHasDownloadedTwin ==
    pc = "returned" =>
        /\ \A i \in DOMAIN pdf_futures :
              pdf_futures[i].duplicate =>
                  pdf_futures[i].pdf_data[1].content_signature \in DownloadedSignatures
        /\ pdf_signatures \subseteq DownloadedSignatures

\* C33: when scrape_website_parallel returns after a successful connection
\* test, total_pages_scraped is the size of the visited set: every visited URL
\* was dispatched exactly once and its result counted; and at least one page
\* was scraped when the start URL is in scope.
C33_ScrapedCountIsVisitedCount ==
    (pc = "returned" /\ test_response[1].ok) =>
        /\ results.total_pages_scraped = Cardinality(visited_urls)
        /\ Range(dispatched) = visited_urls
        /\ \A i, j \in DOMAIN dispatched : dispatched[i] = dispatched[j] => i = j
        /\ \A i \in DOMAIN futures : futures[i].at = "consumed"
        /\ (IsValidUrl(NormalizeUrl(start_url), start_url) => results.total_pages_scraped >= 1)

\* a crawl of several batches has returned, with pages among the visited that
\* had no prices or could not be fetched
C33_Witness ==
    /\ pc = "returned"
    /\ test_response[1].ok
    /\ results.total_pages_scraped >= 3
    /\ Len(results.pages_with_prices) < results.total_pages_scraped
    /\ Len(futures) < Len(dispatched)

\* the PDF workers inside "with self.lock", and those waiting to enter
InCriticalSection == {i \in DOMAIN pdf_futures : pdf_futures[i].at \in {"checking", "inserting"}}
WaitingForLock == {i \in DOMAIN pdf_futures : pdf_futures[i].at = "waiting"}

\* C34: the lock cannot cause a deadlock. The lock is held by exactly the
\* worker inside a critical section, which is not fetching and not waiting;
\* the holder does not acquire it again; a worker that waits for the lock
\* leaves the wait only by getting it; every exit of a critical section, the
\* return on a duplicate included, releases it; and the crawl returns, with no
\* worker left waiting: every worker that requested the lock got it.
C34_LockNeverDeadlocks ==
    /\ [](InCriticalSection = (IF lock = NoHolder THEN {} ELSE {lock}))
    /\ [][lock /= NoHolder => lock' \in {lock, NoHolder}]_vars
    /\ [][\A i \in WaitingForLock :
              pdf_futures'[i].at \in {"waiting", "checking"}
                  /\ (pdf_futures'[i].at = "checking" => lock = NoHolder /\ lock' = i)]_vars
    /\ [][\A i \in InCriticalSection :
              pdf_futures'[i].at \notin {"checking", "inserting"} => lock' = NoHolder]_vars
    /\ <>(pc = "returned")
    /\ [](pc = "returned" => WaitingForLock = {} /\ lock = NoHolder)

\* a worker waits for the lock while another, whose PDF is a duplicate of one
\* that went through the critical section before, holds it
C34_Witness ==
    /\ lock /= NoHolder
    /\ WaitingForLock /= {}
    /\ pdf_futures[lock].at = "checking"
    /\ pdf_futures[lock].pdf_data[1].content_signature \in pdf_signatures

\* the PDF executor has at most min(4, max_workers) threads at work, it is given
\* the first PdfBatchCap pairs of pending_pdfs in their order and no other,
\* and results['downloaded_pdfs'] gets at most one entry for each
PdfPoolTakesFirstPairs ==
    /\ b_running <= Min(PdfPoolCap, max_workers)
    /\ b_taken <= PdfBatchCap
    /\ b_downloaded <= PdfBatchCap
    /\ pc = "pdf_counted" =>
          /\ Len(b_futures) <= PdfBatchCap
          /\ Len(b_futures) <= Len(pending_pdfs)
          /\ \A i \in DOMAIN b_futures : b_futures[i] = pending_pdfs[i]

\* the URL of a pair of pending_pdfs after the first PdfBatchCap is requested
\* by no worker, of the PDF executor or of the page executor
LaterPdfLinksNeverFetched ==
    \A i \in DOMAIN pending_pdfs :
        i > PdfBatchCap =>
            /\ pending_pdfs[i][1] \notin {b_futures[j][1] : j \in 1..b_taken}
            /\ pending_pdfs[i][1] \notin Range(dispatched)

\* C32: a crawl dispatches at most 25 PDF fetches, on a pool of at most
\* min(4, max_workers) workers: the first 25 entries of pending_pdfs, in the
\* order of discovery with repeats, are processed, the link of every later
\* entry is never fetched, and downloaded_pdfs has at most 25 entries
C32_PdfFetchesCapped == PdfPoolTakesFirstPairs /\ LaterPdfLinksNeverFetched

\* the driver is in the page phase of the crawl
InPagePhase == pc \in {"connect", "loop", "fill", "await"}

\* C22: the page phase ends; from a loop head where the queue is empty or the
\* visited count has reached max_pages the driver leaves the loop without a new
\* batch; when the phase is over every dispatched URL has had its result
\* consumed; and every batch that is launched holds at least one URL, all of
\* them marked visited during its fill and none dispatched before.
C22_PagePhaseTerminates ==
    /\ <>(~InPagePhase)
    /\ [][(pc = "loop" /\ (queue = <<>> \/ Cardinality(visited_urls) >= max_pages))
              => pc' = "pdfs"]_vars
    /\ [](~InPagePhase =>
              /\ \A i \in DOMAIN futures : futures[i].at = "consumed"
              /\ results.total_pages_scraped = Len(dispatched))
    /\ [][dispatched' /= dispatched =>
              /\ Len(dispatched') > Len(dispatched)
              /\ \A k \in (Len(dispatched) + 1)..Len(dispatched') :
                    /\ dispatched'[k] \in visited_urls
                    /\ dispatched'[k] \notin Range(dispatched)]_vars

\* C22's case: the driver left the loop at the page cap with URLs still queued,
\* after two batches whose pages were all consumed
C22_Witness ==
    /\ pc = "pdfs"
    /\ queue /= <<>>
    /\ Cardinality(visited_urls) >= max_pages
    /\ Len(dispatched) >= 3
    /\ results.total_pages_scraped = Len(dispatched)

-----------------------------------------------------------------------------
(* The excerpt assembler: extract_price_excerpts_fast(results, filename)   *)

\* the sources the assembler goes through, in its order: the page texts, the
\* price lines of the PDFs, the texts of the PDFs
ExcerptSources(res) ==
    [k \in 1..Len(res.page_texts) |->
        [kind |-> "page", key |-> res.page_texts[k][1], value |-> res.page_texts[k][2]]]
    \o [k \in 1..Len(res.pdf_price_lines) |->
        [kind |-> "pdf_lines", key |-> res.pdf_price_lines[k][1],
         value |-> res.pdf_price_lines[k][2]]]
    \o [k \in 1..Len(res.pdf_texts) |->
        [kind |-> "pdf_text", key |-> res.pdf_texts[k][1], value |-> res.pdf_texts[k][2]]]

\* "seen_hashes = set()": the set a call starts with, given the one before it
FreshSeen_Kept(seen) == seen
FreshSeen(seen) == {}

\* excerpts_by_source: the sources in the order of their first excerpt, each
\* with the type of its first excerpt and its excerpts in order
RECURSIVE ExcerptsBySource(_)
ExcerptsBySource(excerpts) ==
    IF excerpts = <<>> THEN <<>>
    ELSE LET init == ExcerptsBySource(SubSeq(excerpts, 1, Len(excerpts) - 1))
             last == excerpts[Len(excerpts)]
         IN  IF \E g \in DOMAIN init : init[g].source = last.source
             THEN [g \in DOMAIN init |->
                      IF init[g].source = last.source
                      THEN [init[g] EXCEPT !.excerpts = Append(@, last)]
                      ELSE init[g]]
             ELSE Append(init, [source |-> last.source, type |-> last.type,
                                excerpts |-> <<last>>])

\* one block of the file: the header of a source and its numbered excerpts
Block(group, first_num) ==
    [source |-> group.source, type |-> group.type, count |-> Len(group.excerpts),
     entries |-> [k \in 1..Len(group.excerpts) |->
                    [num |-> first_num + k - 1, text |-> group.excerpts[k].text,
                     prices |-> group.excerpts[k].prices]]]

\* a numbering that starts again in every block
WrittenBlocks_NumberedPerBlock(groups, excerpt_num) ==
    [g \in DOMAIN groups |-> Block(groups[g], 1)]

\* "for source, source_excerpts in excerpts_by_source.items()": the blocks
\* written, excerpt_num being the number the next excerpt gets
RECURSIVE WrittenBlocks(_, _)
WrittenBlocks(groups, excerpt_num) ==
    IF groups = <<>> THEN <<>>
    ELSE <<Block(Head(groups), excerpt_num)>>
            \o WrittenBlocks(Tail(groups), excerpt_num + Len(Head(groups).excerpts))

CountOfTypes(excerpts, types) ==
    Cardinality({k \in DOMAIN excerpts : excerpts[k].type \in types})

\* what is written to the file: the header counts and the excerpts by source
ExcerptFile(res, excerpts) ==
    [start_url |-> res.start_url,
     total |-> Len(excerpts),
     webpage |-> CountOfTypes(excerpts, {"webpage"}),
     pdf |-> CountOfTypes(excerpts, {"pdf", "pdf_context"}),
     by_source |-> ExcerptsBySource(excerpts),
     blocks |-> WrittenBlocks(ExcerptsBySource(excerpts), 1)]

\* the call starts: its two locals are created
ExcerptsBegin ==
    /\ xpc = "call"
    /\ xpc' = "work"
    /\ xindex' = 1
    /\ seen_hashes' = FreshSeen(seen_hashes)
    /\ all_excerpts' = <<>>
    /\ UNCHANGED <<excerpt_file, excerpt_ret, xrun, xfirst, xinput, nonExcerptVars>>

\* seen_hashes and all_excerpts once the candidates of a source are added
ExcerptsAdd(candidates) ==
    /\ LET added == AddExcerpts(seen_hashes, all_excerpts, candidates)
       IN  /\ seen_hashes' = added.seen_hashes
           /\ all_excerpts' = added.all_excerpts
    /\ xindex' = xindex + 1
    /\ UNCHANGED <<xpc, excerpt_file, excerpt_ret, xrun, xfirst, xinput, nonExcerptVars>>

\* one round of "for url, text in results['page_texts'].items()"
ExcerptsPage ==
    /\ xpc = "work"
    /\ xindex <= Len(ExcerptSources(results))
    /\ ExcerptSources(results)[xindex].kind = "page"
    /\ ExcerptsAdd(PageCandidates(ExcerptSources(results)[xindex].key,
                                  ExcerptSources(results)[xindex].value))

\* one round of "for pdf_url, price_lines in results['pdf_price_lines'].items()"
ExcerptsPdfLines ==
    /\ xpc = "work"
    /\ xindex <= Len(ExcerptSources(results))
    /\ ExcerptSources(results)[xindex].kind = "pdf_lines"
    /\ ExcerptsAdd(PdfLineCandidates(ExcerptSources(results)[xindex].key,
                                     ExcerptSources(results)[xindex].value))

\* one round of "for pdf_url, text in results['pdf_texts'].items()"
ExcerptsPdfText ==
    /\ xpc = "work"
    /\ xindex <= Len(ExcerptSources(results))
    /\ ExcerptSources(results)[xindex].kind = "pdf_text"
    /\ ExcerptsAdd(PdfContextCandidates(ExcerptSources(results)[xindex].key,
                                        ExcerptSources(results)[xindex].value))

\* the file is written and its name returned, or writing raises and None is
\* returned
ExcerptsWrite ==
    /\ xpc = "work"
    /\ xindex > Len(ExcerptSources(results))
    /\ \E written \in BOOLEAN :
          IF written
          THEN /\ excerpt_file' = <<ExcerptFile(results, all_excerpts)>>
               /\ excerpt_ret' = "filename"
          ELSE /\ excerpt_file' = excerpt_file
               /\ excerpt_ret' = "none"
    /\ xpc' = "done"
    /\ UNCHANGED <<xindex, seen_hashes, all_excerpts, xrun, xfirst, xinput, nonExcerptVars>>

\* the assembler is called once more on the same results
ExcerptsAgain ==
    /\ xpc = "done"
    /\ xrun = 1
    /\ xrun' = 2
    /\ xfirst' = all_excerpts
    /\ xpc' = "call"
    /\ UNCHANGED <<xindex, seen_hashes, all_excerpts, excerpt_file, excerpt_ret, xinput,
                   nonExcerptVars>>

\* the page texts and PDF texts the results given to the assembler are made of
ExcerptPageTexts ==
    { <<"B", "a", "s", "i", "c", " ", "c", "r", "e", "m", "a", "t", "i", "o", "n", " ", "p", "a", "c", "k", "a", "g", "e", " ", "$", "9", "9", "5">>,
      <<"C", "a", "s", "k", "e", "t", " ", "p", "r", "i", "c", "e", " ", "i", "s", " ", "$", "1", ",", "2", "0", "0", ".", "0", "0", " ", "t", "o", "d", "a", "y", "!", " ", "C", "a", "l", "l", " ", "u", "s", " ", "n", "o", "w">>,
      <<"D", "i", "r", "e", "c", "t", " ", "C", "r", "e", "m", "a", "t", "i", "o", "n", ".", ".", ".", ".", ".", "$", "9", "9", "5", " ", "o", "n", "l", "y">>,
      <<"p", "a", "d", "d", "i", "n", "g", ":", " ", "$", "2", "0", " ", "f", "o", "r", " ", "t", "h", "e", " ", "b", "a", "s", "i", "c", " ", "b", "o", "x">> }

ExcerptPdfTexts ==
    { <<"B", "a", "s", "i", "c", " ", "c", "r", "e", "m", "a", "t", "i", "o", "n", " ", "p", "a", "c", "k", "a", "g", "e", " ", "$", "9", "9", "5">>,
      <<"G", "P", "L", "\n", "D", "i", "r", "e", "c", "t", " ", "C", "r", "e", "m", "a", "t", "i", "o", "n", ".", ".", ".", ".", ".", "$", "9", "9", "5", "\n", "U", "r", "n", " ", "$", "5", ",", " ", "$", "5">>,
      <<"U", "r", "n", " ", "a", "n", "d", " ", "b", "o", "x", "\n", "C", "a", "s", "k", "e", "t", " ", "$", "1", ",", "2", "0", "0", " ", "e", "a", "c", "h", "\n", "\n", "D", "i", "r", "e", "c", "t", " ", "C", "r", "e", "m", "a", "t", "i", "o", "n", ".", ".", ".", ".", ".", "$", "9", "9", "5", " ", "o", "n", "l", "y">> }

\* results hold at most MaxSources page texts and at most MaxSources PDFs
MaxSources == 2

PageUrls == <<PageA, PageB, PageC>>
PdfUrls == <<Pdf1, Pdf2, Pdf3>>

\* the sequences of at most n elements of S
RECURSIVE SeqsUpTo(_, _)
SeqsUpTo(S, n) ==
    IF n = 0 THEN {<<>>}
    ELSE SeqsUpTo(S, n - 1) \cup {Append(q, x) : q \in SeqsUpTo(S, n - 1), x \in S}

\* what scrape_page_fast returns for a page of each text, and process_pdf_fast
\* for a PDF of each text, worked out once
ExcerptPageData ==
    [t \in ExcerptPageTexts |->
        [prices |-> FindPricesInText(CleanTextFast(t)), links |-> <<>>, pdf_links |-> <<>>,
         title |-> "No title", text |-> CleanTextFast(t)]]
ExcerptPdfData ==
    [t \in ExcerptPdfTexts |->
        PdfData(PdfDoc(AlwaysOk, <<>>, t, <<>>), t, UniquePriceLines(CandidatePriceLines(t)))]

\* results as a crawl leaves them when the pages with the given texts were
\* consumed in order, then the PDFs with the given texts
RECURSIVE ResultsOfPages(_, _)
ResultsOfPages(texts, n) ==
    IF n = 0 THEN EmptyResults(Root)
    ELSE LET before == ResultsOfPages(texts, n - 1)
         IN  WithPage(before, PageUrls[n],
                      [url |-> PageUrls[n]] @@ ExcerptPageData[texts[n]],
                      {PriceSig(before.pages_with_prices[k].prices) :
                          k \in DOMAIN before.pages_with_prices})

RECURSIVE ResultsOfPdfs(_, _, _)
ResultsOfPdfs(res, texts, n) ==
    IF n = 0 THEN res
    ELSE WithPdf(ResultsOfPdfs(res, texts, n - 1), PdfUrls[n], PageUrls[1],
                 PdfFilename(PdfUrls[n], <<"1">>), ExcerptPdfData[texts[n]])

\* the results of every family of page texts, worked out once
ExcerptPageResults ==
    [pages \in SeqsUpTo(ExcerptPageTexts, MaxSources) |-> ResultsOfPages(pages, Len(pages))]

\* no two of the texts have the same content signature
DistinctSignatures(texts) ==
    \A i, j \in DOMAIN texts : i /= j => ContentSignature(texts[i]) /= ContentSignature(texts[j])

InitExcerpts ==
    /\ \E pages \in SeqsUpTo(ExcerptPageTexts, MaxSources),
          pdfs \in {d \in SeqsUpTo(ExcerptPdfTexts, MaxSources) : DistinctSignatures(d)} :
          /\ results = ResultsOfPdfs(ExcerptPageResults[pages], pdfs, Len(pdfs))
          /\ xinput = <<results>>
    /\ site = "bare" /\ max_pages = 1 /\ max_workers = 1 /\ start_url = Root
    /\ pc = "returned" /\ test_response = <<>> /\ queue = <<>> /\ visited_urls = {}
    /\ batch = <<>> /\ futures = <<>> /\ pending_pdfs = <<>>
    /\ page_signatures = {} /\ pdf_signatures = {} /\ lock = NoHolder
    /\ pdf_futures = <<>> /\ files = {} /\ dispatched = <<>>
    /\ xpc = "call" /\ xindex = 0 /\ seen_hashes = {} /\ all_excerpts = <<>>
    /\ excerpt_file = <<>> /\ excerpt_ret = "none" /\ xrun = 1 /\ xfirst = <<>>
    /\ HarnessesIdle
    /\ HandlerIdle

NextExcerpts ==
    \/ ExcerptsBegin
    \/ ExcerptsPage
    \/ ExcerptsPdfLines
    \/ ExcerptsPdfText
    \/ ExcerptsWrite
    \/ ExcerptsAgain

SpecExcerpts == InitExcerpts /\ [][NextExcerpts]_vars

\* every candidate of results, in the assembler's order, none dropped
RECURSIVE AllCandidates(_, _)
AllCandidates(sources, n) ==
    IF n = 0 THEN <<>>
    ELSE AllCandidates(sources, n - 1) \o
         (CASE sources[n].kind = "page" -> PageCandidates(sources[n].key, sources[n].value)
            [] sources[n].kind = "pdf_lines" ->
                  PdfLineCandidates(sources[n].key, sources[n].value)
            [] sources[n].kind = "pdf_text" ->
                  PdfContextCandidates(sources[n].key, sources[n].value))

\* C5: at every moment of a call no two excerpts of all_excerpts have the same
\* text-span hash, whatever their sources and kinds; and every hash of an
\* excerpt is recorded in seen_hashes.
C5_NoTwoExcerptsShareHash ==
    /\ \A i, j \in DOMAIN all_excerpts :
          i /= j => MD5Prefix16(all_excerpts[i].text) /= MD5Prefix16(all_excerpts[j].text)
    /\ xpc \in {"work", "done"} =>
          \A i \in DOMAIN all_excerpts : MD5Prefix16(all_excerpts[i].text) \in seen_hashes

\* C5's case: a call is over in which spans were dropped because their hash had
\* been emitted by an earlier source of another kind, and excerpts of all three
\* kinds were kept
C5_Witness ==
    /\ xpc = "done"
    /\ {all_excerpts[k].type : k \in DOMAIN all_excerpts} = {"webpage", "pdf", "pdf_context"}
    /\ LET candidates == AllCandidates(ExcerptSources(results), Len(ExcerptSources(results)))
       IN  \E i, j \in DOMAIN candidates :
              /\ i < j
              /\ candidates[i].text = candidates[j].text
              /\ candidates[i].type /= candidates[j].type
              /\ candidates[i].source /= candidates[j].source

\* C6: a second call on the same results ends with the same set of excerpts as
\* the first (the same excerpts in the same order, even), and results are what
\* they were before the first call.
C6_AssemblerIdempotent ==
    (xrun = 2 /\ xpc = "done") =>
        /\ Range(all_excerpts) = Range(xfirst)
        /\ all_excerpts = xfirst
        /\ xinput = <<results>>

\* C6's case: the second call is over, the first had kept several excerpts and
\* had dropped a repeated span
C6_Witness ==
    /\ xrun = 2
    /\ xpc = "done"
    /\ Len(xfirst) >= 2
    /\ Len(AllCandidates(ExcerptSources(results), Len(ExcerptSources(results)))) > Len(xfirst)

\* the entries of the blocks, one block after the other
RECURSIVE EntriesOf(_)
EntriesOf(blocks) ==
    IF blocks = <<>> THEN <<>> ELSE Head(blocks).entries \o EntriesOf(Tail(blocks))

\* the positions in all_excerpts of the excerpts of a source, in order
RECURSIVE PositionsOf(_, _, _)
PositionsOf(excerpts, source, k) ==
    IF k > Len(excerpts) THEN <<>>
    ELSE (IF excerpts[k].source = source THEN <<k>> ELSE <<>>)
            \o PositionsOf(excerpts, source, k + 1)

\* C21: in the file the assembler wrote, every source of an excerpt has exactly
\* one block, the blocks come in the order of the first excerpt of their
\* sources, the excerpts of a block are those of its source in the order they
\* were emitted, and the numbers run 1, 2, ..., N over all the blocks.
C21_CorpusGroupedAndNumbered ==
    (xpc = "done" /\ excerpt_ret = "filename") =>
        LET blocks == excerpt_file[1].blocks
            entries == EntriesOf(blocks)
        IN  /\ {blocks[b].source : b \in DOMAIN blocks}
                  = {all_excerpts[k].source : k \in DOMAIN all_excerpts}
            /\ \A b, c \in DOMAIN blocks : blocks[b].source = blocks[c].source => b = c
            /\ \A b, c \in DOMAIN blocks :
                  b < c => PositionsOf(all_excerpts, blocks[b].source, 1)[1]
                              < PositionsOf(all_excerpts, blocks[c].source, 1)[1]
            /\ \A b \in DOMAIN blocks :
                  LET at == PositionsOf(all_excerpts, blocks[b].source, 1)
                  IN  /\ Len(blocks[b].entries) = Len(at)
                      /\ \A k \in DOMAIN at :
                            /\ blocks[b].entries[k].text = all_excerpts[at[k]].text
                            /\ blocks[b].entries[k].prices = all_excerpts[at[k]].prices
            /\ Len(entries) = Len(all_excerpts)
            /\ \A n \in DOMAIN entries : entries[n].num = n

\* C21's case: a file of two blocks of two excerpts each was written, and
\* grouping moved an excerpt before one that was emitted before it
C21_Witness ==
    /\ xpc = "done" /\ excerpt_ret = "filename"
    /\ Len(excerpt_file[1].blocks) = 2
    /\ \A b \in {1, 2} : Len(excerpt_file[1].blocks[b].entries) >= 2
    /\ \E k \in DOMAIN all_excerpts :
          EntriesOf(excerpt_file[1].blocks)[k].text /= all_excerpts[k].text

\* C20 as stated: every excerpt of type webpage, from the split by line or by
\* sentence, has at least 20 characters, is not matched by technical_patterns
\* and has at least one price.
C20_WebpageExcerptsFiltered ==
    \A i \in DOMAIN all_excerpts :
        all_excerpts[i].type = "webpage" =>
            /\ Len(all_excerpts[i].text) >= 20
            /\ ~TechnicalSearch(all_excerpts[i].text)
            /\ all_excerpts[i].prices /= <<>>

-----------------------------------------------------------------------------
(* The /scrape handler: scrape_website(request, http_request) of main.py   *)

Https == <<"h", "t", "t", "p", "s">>
Ftp == <<"f", "t", "p">>
FtpRoot == Url(Ftp, Host, <<"/">>, <<>>, <<>>)

\* request.url.startswith(('http://', 'https://'))
StartsWithHttp(url) == url.scheme \in {Http, Https}

\* the limits of the request and the caps put on the scraper
PagesLimit == 200
PagesCap == 100
WorkersLimit == 10
HandlerWorkerCap == 5

\* the handler answers at most MaxRequests requests, one after the other
MaxRequests == 2

\* the sites the requests are about
HandlerSites == {"bare", "brochure"}

\* the requests sent: below, within and above the limits
RequestedPages == {0, 1, PagesCap + 1, PagesLimit + 1}
HandlerWorkers == {0, 1, HandlerWorkerCap + 1, WorkersLimit + 1}
Requests ==
    [url : {Root, FtpRoot}, max_pages : RequestedPages, max_workers : HandlerWorkers]

\* a message and the number it is formatted with, if any
Message(text, items) == [text |-> text, items |-> items]

\* raise HTTPException(status_code, detail)
HTTPException(status_code, detail) ==
    [status |-> status_code, success |-> <<>>, message |-> <<>>, detail |-> <<detail>>,
     data |-> <<>>, formatted_prices |-> <<>>]

\* return ScrapeResponse(success, message, data, formatted_prices)
ScrapeResponse(success, message, data, formatted_prices) ==
    [status |-> 200, success |-> <<success>>, message |-> <<message>>, detail |-> <<>>,
     data |-> <<data>>, formatted_prices |-> formatted_prices]

\* the response of "if total_prices == 0 and total_pdfs == 0"
NoPricingResponse(res) ==
    ScrapeResponse(FALSE, Message("No pricing information found on the website.", <<>>),
                   [total_pages_scraped |-> res.total_pages_scraped, pages_with_prices |-> 0,
                    unique_prices_found |-> 0, pdfs_downloaded |-> 0,
                    formatted_items_count |-> 0, workers_used |-> 0],
                   <<>>)

\* formatted_lines: the stripped lines of the answer that are not empty and
\* hold a ':' and a '$'
FormattedLines(answer_text) ==
    SelectSeq([k \in DOMAIN Split(answer_text, "\n") |->
                  Strip(Split(answer_text, "\n")[k])],
              LAMBDA line : line /= <<>> /\ Contains(line, <<":">>) /\ Contains(line, <<"$">>))

\* the response of the success path
SuccessResponse(res, answer_text, workers) ==
    ScrapeResponse(TRUE,
                   Message("Successfully processed {} items in {} seconds",
                           <<Len(FormattedLines(answer_text))>>),
                   [total_pages_scraped |-> res.total_pages_scraped,
                    pages_with_prices |-> Len(res.pages_with_prices),
                    unique_prices_found |-> Cardinality(Range(res.all_prices)),
                    pdfs_downloaded |-> Len(res.downloaded_pdfs),
                    formatted_items_count |-> Len(FormattedLines(answer_text)),
                    workers_used |-> workers],
                   <<answer_text>>)

\* how call_gemini_api ends for the handler: the wait times out, it returns a
\* dict with an 'error' key, or it returns a text
GeminiOutcomes ==
    { [kind |-> "timeout", text |-> <<>>],
      [kind |-> "error", text |-> <<>>],
      [kind |-> "text", text |-> <<"U", "r", "n", ":", " ", "$", "5", "\n", "\n", "C", "a", "l", "l", " ", "u", "s", "\n", " ", " ", "C", "a", "s", "k", "e", "t", ":", " ", "$", "1", "0", "0", " ">>],
      [kind |-> "text", text |-> <<"N", "o", " ", "p", "r", "i", "c", "e", "s">>] }

\* the messages of the generic "except Exception" clause
UnexpectedMessages ==
    { "An unexpected error occurred during processing",
      "Processing timed out - please try with a smaller scope",
      "Connection error - please check the URL and try again" }

\* how the crawl of a request ended when the response was decided
CrawlClass ==
    IF pc /= "returned" THEN "running"
    ELSE IF ~test_response[1].ok THEN "unreachable"
    ELSE IF results.all_prices = <<>> /\ results.downloaded_pdfs = <<>> THEN "nothing_found"
    ELSE "found"

\* the response is decided; the finally clause is next
Reply(class, resp) ==
    /\ reply' = <<resp>>
    /\ hclass' = class
    /\ hpc' = "finally"

InitHandler ==
    /\ hpc = "waiting" /\ request = <<>> /\ temp_filename = <<>> /\ reply = <<>>
    /\ hclass = "none" /\ hlog = <<>> /\ formatted_response = <<>>
    /\ unlink_result = "none"
    /\ CrawlIdle
    /\ ExcerptsIdle
    /\ HarnessesIdle

\* a request arrives: "temp_filename = None"
HandlerReceive ==
    /\ hpc = "waiting"
    /\ Len(hlog) < MaxRequests
    /\ request' \in {<<r>> : r \in Requests}
    /\ site' \in HandlerSites
    /\ temp_filename' = <<>>
    /\ reply' = <<>>
    /\ hclass' = "none"
    /\ formatted_response' = <<>>
    /\ unlink_result' = "none"
    /\ hpc' = "received"
    /\ UNCHANGED <<hlog, max_pages, max_workers, start_url, pc, test_response, queue,
                   visited_urls, batch, futures, results, pending_pdfs, page_signatures,
                   pdfVars, dispatched, harnessVars, excerptVars>>

\* "max_pages=min(request.max_pages, 100)"
ScraperMaxPages_AsRequested(requested) == requested
ScraperMaxPages(requested) == Min(requested, PagesCap)

\* "max_workers=min(request.max_workers, 5)", then "min(max_workers, 8)" in
\* the constructor
ScraperMaxWorkers(requested) == Min(Min(requested, HandlerWorkerCap), WorkerCap)

\* the request is validated; a scraper is made with the capped parameters and
\* scrape_website_parallel(request.url) starts in a thread
HandlerValidate ==
    /\ hpc = "received"
    /\ IF ~StartsWithHttp(request[1].url)
       THEN /\ Reply("rejected", HTTPException(400, "URL must start with http:// or https://"))
            /\ UNCHANGED crawlVars
       ELSE IF request[1].max_pages < 1 \/ request[1].max_pages > PagesLimit
       THEN /\ Reply("rejected", HTTPException(400, "max_pages must be between 1 and 200"))
            /\ UNCHANGED crawlVars
       ELSE IF request[1].max_workers < 1 \/ request[1].max_workers > WorkersLimit
       THEN /\ Reply("rejected", HTTPException(400, "max_workers must be between 1 and 10"))
            /\ UNCHANGED crawlVars
       ELSE /\ max_pages' = ScraperMaxPages(request[1].max_pages)
            /\ max_workers' = ScraperMaxWorkers(request[1].max_workers)
            /\ start_url' = request[1].url
            /\ pc' = "connect"
            /\ test_response' = <<>>
            /\ queue' = <<request[1].url>>
            /\ visited_urls' = {} /\ batch' = <<>> /\ futures' = <<>>
            /\ results' = EmptyResults(request[1].url)
            /\ pending_pdfs' = <<>> /\ page_signatures' = {} /\ pdf_signatures' = {}
            /\ lock' = NoHolder /\ pdf_futures' = <<>> /\ dispatched' = <<>>
            /\ hpc' = "crawling"
            /\ UNCHANGED <<site, files, reply, hclass>>
    /\ UNCHANGED <<request, temp_filename, hlog, formatted_response, unlink_result, harnessVars, excerptVars>>

\* asyncio.wait_for gives up on the crawl: the thread is not stopped
HandlerCrawlTimeout ==
    /\ hpc = "crawling"
    /\ pc /= "returned"
    /\ Reply(CrawlClass, HTTPException(504, "Scraping operation timed out (5 minute limit)"))
    /\ UNCHANGED <<request, temp_filename, hlog, formatted_response, unlink_result, crawlVars, harnessVars,
                   excerptVars>>

\* the crawl returned: nothing found ends the request, else the temp file is
\* created and extract_price_excerpts_fast(results, temp_filename) is called
HandlerEmptyCheck ==
    /\ hpc = "crawling"
    /\ pc = "returned"
    /\ IF Len(results.all_prices) = 0 /\ Len(results.downloaded_pdfs) = 0
       THEN /\ Reply(CrawlClass, NoPricingResponse(results))
            /\ UNCHANGED <<temp_filename, excerptVars>>
       ELSE \E created \in BOOLEAN, error_message \in UnexpectedMessages :
               IF created
               THEN /\ temp_filename' = <<"tmp.txt">>
                    /\ excerpt_file' = << <<>> >>
                    /\ xpc' = "call"
                    /\ xrun' = 1
                    /\ xinput' = <<results>>
                    /\ hpc' = "excerpts"
                    /\ UNCHANGED <<reply, hclass, xindex, seen_hashes, all_excerpts,
                                   excerpt_ret, xfirst>>
               ELSE /\ Reply(CrawlClass, HTTPException(500, error_message))
                    /\ UNCHANGED <<temp_filename, excerptVars>>
    /\ UNCHANGED <<request, hlog, formatted_response, unlink_result, crawlVars, harnessVars>>

\* the assembler returned: no file is a 500, then the API key is read
HandlerExcerptsDone ==
    /\ hpc = "excerpts"
    /\ xpc = "done"
    /\ IF excerpt_ret = "none"
       THEN Reply(CrawlClass, HTTPException(500, "Failed to extract price excerpts"))
       ELSE \E api_key \in BOOLEAN :
               IF ~api_key
               THEN Reply(CrawlClass,
                          HTTPException(500, "GEMINI_API_KEY environment variable not set. Please configure your API key."))
               ELSE /\ hpc' = "gemini"
                    /\ UNCHANGED <<reply, hclass>>
    /\ UNCHANGED <<request, temp_filename, hlog, formatted_response, unlink_result, crawlVars, harnessVars,
                   excerptVars>>

\* call_gemini_api(excerpt_file, api_key) in a thread, under the 120 second
\* wait: the wait runs out, or formatted_response is what the call returned
HandlerGeminiCall ==
    /\ hpc = "gemini"
    /\ \E outcome \in GeminiOutcomes :
          IF outcome.kind = "timeout"
          THEN /\ Reply(CrawlClass,
                        HTTPException(504, "AI processing timed out (2 minute limit)"))
               /\ UNCHANGED formatted_response
          ELSE /\ formatted_response' = <<outcome>>
               /\ hpc' = "answered"
               /\ UNCHANGED <<reply, hclass>>
    /\ UNCHANGED <<request, temp_filename, hlog, unlink_result, crawlVars, harnessVars,
                   excerptVars>>

\* the response made of formatted_response: a dict with "error" is a 500
GeminiResponse_ErrorAsText(res, outcome, workers) ==
    SuccessResponse(res, outcome.text, workers)
GeminiResponse(res, outcome, workers) ==
    IF outcome.kind = "error" THEN HTTPException(500, "AI processing failed: {}")
    ELSE SuccessResponse(res, outcome.text, workers)

\* "if isinstance(formatted_response, dict) and 'error' in formatted_response:
\* raise", else the success response
HandlerGeminiDone ==
    /\ hpc = "answered"
    /\ Reply(CrawlClass, GeminiResponse(results, formatted_response[1], max_workers))
    /\ UNCHANGED <<request, temp_filename, hlog, formatted_response, unlink_result, crawlVars, harnessVars,
                   excerptVars>>

\* what the caller sees of a response
Report(resp) ==
    [status |-> resp.status, success |-> resp.success, message |-> resp.message,
     detail |-> resp.detail]

\* "if temp_filename and os.path.exists(temp_filename):"
ShouldUnlink_Never(temp, file) == FALSE
ShouldUnlink(temp, file) == temp /= <<>> /\ file /= <<>>

\* the finally clause: the temp file, if one was made and still exists, is
\* deleted unless the deletion fails; the response goes out
HandlerFinally ==
    /\ hpc = "finally"
    /\ IF ShouldUnlink(temp_filename, excerpt_file)
       THEN \E deleted \in BOOLEAN :
               /\ excerpt_file' = IF deleted THEN <<>> ELSE excerpt_file
               /\ unlink_result' = IF deleted THEN "done" ELSE "failed"
       ELSE /\ excerpt_file' = excerpt_file
            /\ unlink_result' = "none"
    /\ hlog' = Append(hlog, [class |-> hclass, report |-> Report(reply[1])])
    /\ hpc' = "responded"
    /\ UNCHANGED <<request, temp_filename, reply, hclass, formatted_response, crawlVars,
                   harnessVars, xpc, xindex,
                   seen_hashes, all_excerpts, excerpt_ret, xrun, xfirst, xinput>>

\* the call is over and so is the thread of its crawl: the locals of the call
\* and its scraper are gone, the downloaded PDFs stay; a temp file that could
\* not be deleted is no longer followed
HandlerReturn ==
    /\ hpc = "responded"
    /\ pc \in {"idle", "returned"}
    /\ hpc' = "waiting" /\ request' = <<>> /\ temp_filename' = <<>> /\ reply' = <<>>
    /\ hclass' = "none" /\ formatted_response' = <<>> /\ unlink_result' = "none"
    /\ site' = "bare" /\ max_pages' = 1 /\ max_workers' = 1 /\ start_url' = Root
    /\ pc' = "idle" /\ test_response' = <<>> /\ queue' = <<>> /\ visited_urls' = {}
    /\ batch' = <<>> /\ futures' = <<>> /\ results' = EmptyResults(Root)
    /\ pending_pdfs' = <<>> /\ page_signatures' = {} /\ pdf_signatures' = {}
    /\ lock' = NoHolder /\ pdf_futures' = <<>> /\ dispatched' = <<>>
    /\ xpc' = "idle" /\ xindex' = 0 /\ seen_hashes' = {} /\ all_excerpts' = <<>>
    /\ excerpt_file' = <<>> /\ excerpt_ret' = "none" /\ xrun' = 0 /\ xfirst' = <<>>
    /\ xinput' = <<>>
    /\ UNCHANGED <<hlog, files, harnessVars>>

NextHandler ==
    \/ HandlerReceive
    \/ HandlerValidate
    \/ HandlerCrawlTimeout
    \/ HandlerEmptyCheck
    \/ HandlerExcerptsDone
    \/ HandlerGeminiCall
    \/ HandlerGeminiDone
    \/ HandlerFinally
    \/ HandlerReturn
    \/ Next
    \/ ExcerptsBegin
    \/ ExcerptsPage
    \/ ExcerptsPdfLines
    \/ ExcerptsPdfText
    \/ ExcerptsWrite

SpecHandler == InitHandler /\ [][NextHandler]_vars

\* C10: a request whose start URL could not be reached and a request to a
\* reachable site on which no prices and no PDFs were found get responses that
\* differ in status, success or message.
C10_UnreachableReportedDifferently ==
    \A i, j \in DOMAIN hlog :
        (hlog[i].class = "unreachable" /\ hlog[j].class = "nothing_found") =>
            hlog[i].report /= hlog[j].report

\* C17: the scraper of a request runs with max_pages <= 100 and
\* max_workers <= 5 whatever was requested, and a request with max_pages
\* outside 1..200 or max_workers outside 1..10 starts no crawl and is answered
\* with status 400.
C17_ScraperParametersCapped ==
    /\ pc /= "idle" => max_pages <= 100 /\ max_workers <= 5
    /\ (/\ request /= <<>>
        /\ \/ request[1].max_pages < 1 \/ request[1].max_pages > 200
           \/ request[1].max_workers < 1 \/ request[1].max_workers > 10)
           => /\ pc = "idle"
              /\ reply /= <<>> => reply[1].status = 400

\* C17's case: a request for 101 pages and 6 workers is being crawled
C17_Witness ==
    /\ request /= <<>>
    /\ request[1].max_pages = 101
    /\ request[1].max_workers = 6
    /\ pc = "await"
    /\ max_pages = 100
    /\ max_workers = 5

\* the crawl of the request has returned without a price and without a PDF
NothingFound ==
    pc = "returned" /\ results.all_prices = <<>> /\ results.downloaded_pdfs = <<>>

\* the response of the request is being decided by this step
Decides == hpc /= "finally" /\ hpc' = "finally"

\* C35 as stated: a run whose crawl returned no prices and no PDFs creates no
\* temp file and makes no call of call_gemini_api; every other run whose crawl
\* returned (and whose temp file could be created) goes through the excerpt
\* assembly and exactly one call of call_gemini_api before its response is
\* decided, and an error dict makes the response a 500.
C35_GeminiCalledOnceUnlessNothingFound ==
    [][Decides /\ pc = "returned" =>
          IF NothingFound
          THEN temp_filename = <<>> /\ formatted_response = <<>> /\ hpc = "crawling"
          ELSE /\ temp_filename /= <<>> => hpc \in {"gemini", "answered"} /\ xpc = "done"
               /\ (hpc = "answered" /\ formatted_response[1].kind = "error"
                      => reply'[1].status = 500 /\ reply'[1].success /= <<TRUE>>)]_vars

\* C35, amended: a run whose crawl returned no prices and no PDFs creates no
\* temp file and makes no call of call_gemini_api. In every other run the
\* handler makes at most one call, after the crawl has returned and the
\* excerpt assembly has returned a file; a run that ends without the call
\* ends with a 500; and an error dict returned by the call makes the response
\* a 500, a text a success.
C35_AtMostOneGeminiCall ==
    /\ [](temp_filename /= <<>> \/ hpc \in {"excerpts", "gemini", "answered"}
            => pc = "returned" /\ ~NothingFound)
    /\ [](formatted_response /= <<>> => temp_filename /= <<>>)
    /\ [](hpc \in {"gemini", "answered"} =>
            pc = "returned" /\ xpc = "done" /\ excerpt_ret = "filename")
    /\ [][formatted_response' /= formatted_response /\ formatted_response' /= <<>>
            => hpc = "gemini" /\ formatted_response = <<>>]_vars
    /\ [][(hpc \in {"answered", "finally", "responded"}) => hpc' /= "gemini"]_vars
    /\ [][Decides /\ pc = "returned" /\ ~NothingFound /\ hpc \in {"crawling", "excerpts"}
            => reply'[1].status = 500]_vars
    /\ [][Decides /\ hpc = "answered" =>
            IF formatted_response[1].kind = "error"
            THEN reply'[1].status = 500 /\ reply'[1].success /= <<TRUE>>
            ELSE reply'[1].status = 200 /\ reply'[1].success = <<TRUE>>]_vars

\* the call returned an error dict and the response is a 500
C35_Witness ==
    /\ hpc = "finally"
    /\ formatted_response /= <<>>
    /\ formatted_response[1].kind = "error"
    /\ reply[1].status = 500
    /\ xpc = "done"

\* C36: on every exit path of the handler taken after the temp file was
\* created, the temp file is gone when the handler has responded, unless its
\* deletion failed.
C36_TempFileDeleted ==
    (hpc = "responded" /\ temp_filename /= <<>> /\ unlink_result /= "failed")
        => excerpt_file = <<>>

\* the exits after the temp file was created: the assembler returned nothing,
\* the API key is missing, the call timed out, returned an error, returned a text
ExitsWithTempFile ==
    { "Failed to extract price excerpts",
      "GEMINI_API_KEY environment variable not set. Please configure your API key.",
      "AI processing timed out (2 minute limit)",
      "AI processing failed: {}" }

\* two requests were answered after their temp file was created and deleted,
\* one with an error of those exits and one with a success
C36_Witness ==
    /\ hpc = "responded"
    /\ temp_filename /= <<>>
    /\ excerpt_file = <<>>
    /\ Len(hlog) >= 2
    /\ unlink_result = "done"
    /\ \E k \in DOMAIN hlog : hlog[k].report.status = 200
    /\ \E k \in DOMAIN hlog :
          hlog[k].report.detail /= <<>> /\ hlog[k].report.detail[1] \in ExitsWithTempFile

\* the 300 seconds of asyncio.wait_for are over for the request being answered
CrawlTimedOut ==
    /\ reply /= <<>>
    /\ reply[1].status = 504
    /\ reply[1].detail = <<"Scraping operation timed out (5 minute limit)">>

\* C23 as stated: once the crawl of a request has timed out, its driver hands
\* no further URL to a page worker and no PDF worker starts a fetch.
C23_NoDispatchAfterTimeout ==
    [][CrawlTimedOut =>
          /\ Len(dispatched') <= Len(dispatched)
          /\ \A i \in DOMAIN pdf_futures' :
                pdf_futures'[i].at /= "queued" =>
                    i \in DOMAIN pdf_futures /\ pdf_futures[i].at /= "queued"]_vars

-----------------------------------------------------------------------------
(* One call of make_request(url), step by step                             *)

\* what a server answers to one request
Statuses == {200, 403, 429, 500, 502, 503, 504, ConnError}

\* one call sends at most two requests in each of its attempts
MaxSent == 2 * max_retries

\* "if 'timeout' not in kwargs: kwargs['timeout'] = 8"
DefaultTimeout == 8

\* "minimal_session.get(url, timeout=8)"
MinimalTimeout == 8

\* "self.make_request(pdf_url, timeout=20)"
PdfTimeout == 20

\* the kwargs of the calls of make_request: scrape_page_fast and the connection
\* test pass none, process_pdf_fast passes its timeout
PageKwargs == <<>>
PdfKwargs == <<PdfTimeout>>
CallKwargs == {PageKwargs, PdfKwargs}

\* the timeout a request of a call with these kwargs is sent with
RequestTimeout(kwargs, headers) ==
    IF headers = "minimal" THEN MinimalTimeout
    ELSE IF kwargs = <<>> THEN DefaultTimeout
    ELSE kwargs[1]

InitRequest ==
    /\ mr_answers \in [1..MaxSent -> Statuses]
    /\ mr_pc = "get"
    /\ mr_attempt = 0
    /\ mr_sent = <<>>
    /\ mr_result = <<>>
    /\ mr_kwargs \in CallKwargs
    /\ PricesIdle
    /\ CounterIdle
    /\ BatchIdle
    /\ GeminiIdle
    /\ CrawlIdle
    /\ ExcerptsIdle
    /\ HandlerIdle

\* the requests sent so far with the minimal header set
MinimalSent(sent) == Cardinality({k \in DOMAIN sent : sent[k].headers = "minimal"})

\* the statuses on which an attempt before the last one is given up at once
RetriedStatuses == {429, 502, 503, 504}

\* "response = self.session.get(url, **kwargs)" and the branch on its status
RequestGet ==
    /\ mr_pc = "get"
    /\ mr_sent' = Append(mr_sent, [headers |-> "session", attempt |-> mr_attempt,
                                   timeout |-> RequestTimeout(mr_kwargs, "session"),
                                   answer |-> mr_answers[Len(mr_sent) + 1]])
    /\ mr_pc' = LET answer == mr_answers[Len(mr_sent) + 1]
                IN  IF answer = ConnError THEN "except"
                    ELSE IF answer = 403 THEN "minimal"
                    ELSE IF answer \in RetriedStatuses /\ mr_attempt < max_retries - 1
                         THEN "continue"
                    ELSE "raise_for_status"
    /\ UNCHANGED <<mr_answers, mr_attempt, mr_result, mr_kwargs, priceVars, counterVars, batchVars, geminiVars, crawlVars,
                   excerptVars,
                   handlerVars>>

\* "response = minimal_session.get(url, timeout=8)"
RequestMinimalGet ==
    /\ mr_pc = "minimal"
    /\ mr_sent' = Append(mr_sent, [headers |-> "minimal", attempt |-> mr_attempt,
                                   timeout |-> RequestTimeout(mr_kwargs, "minimal"),
                                   answer |-> mr_answers[Len(mr_sent) + 1]])
    /\ mr_pc' = IF mr_answers[Len(mr_sent) + 1] = ConnError THEN "except"
                ELSE "raise_for_status"
    /\ UNCHANGED <<mr_answers, mr_attempt, mr_result, mr_kwargs, priceVars, counterVars, batchVars, geminiVars, crawlVars,
                   excerptVars,
                   handlerVars>>

\* "response.raise_for_status()" then "return response"
RequestRaiseForStatus ==
    /\ mr_pc = "raise_for_status"
    /\ IF IsErrorStatus(mr_sent[Len(mr_sent)].answer)
       THEN /\ mr_pc' = "except"
            /\ UNCHANGED mr_result
       ELSE /\ mr_pc' = "done"
            /\ mr_result' = <<RequestReturned(mr_sent[Len(mr_sent)].answer, Len(mr_sent),
                                              MinimalSent(mr_sent))>>
    /\ UNCHANGED <<mr_answers, mr_attempt, mr_sent, mr_kwargs, priceVars, counterVars, batchVars, geminiVars, crawlVars,
                   excerptVars,
                   handlerVars>>

\* "except Exception as e": another attempt, or "raise e" on the last one
RequestExcept ==
    /\ mr_pc = "except"
    /\ IF mr_attempt < max_retries - 1
       THEN /\ mr_pc' = "continue"
            /\ UNCHANGED mr_result
       ELSE /\ mr_pc' = "done"
            /\ mr_result' = <<RequestFailed(mr_sent[Len(mr_sent)].answer, Len(mr_sent),
                                            MinimalSent(mr_sent))>>
    /\ UNCHANGED <<mr_answers, mr_attempt, mr_sent, mr_kwargs, priceVars, counterVars, batchVars, geminiVars, crawlVars,
                   excerptVars,
                   handlerVars>>

\* "continue": the next attempt starts at once
RequestContinue ==
    /\ mr_pc = "continue"
    /\ mr_attempt' = mr_attempt + 1
    /\ mr_pc' = "get"
    /\ UNCHANGED <<mr_answers, mr_sent, mr_result, mr_kwargs, priceVars, counterVars, batchVars, geminiVars, crawlVars,
                   excerptVars,
                   handlerVars>>

NextRequest ==
    \/ RequestGet
    \/ RequestMinimalGet
    \/ RequestRaiseForStatus
    \/ RequestExcept
    \/ RequestContinue

SpecRequest == InitRequest /\ [][NextRequest]_vars

\* the call followed step by step ends as MakeRequest says
RequestAgreesWithMakeRequest ==
    mr_pc = "done" => mr_result = <<MakeRequest(mr_answers)>>

\* every answer of the server is one of the given statuses
AlwaysAnswers(statuses) == \A k \in DOMAIN mr_answers : mr_answers[k] \in statuses

\* C13 as stated: against a URL that answers 403 to every request, one call of
\* make_request sends the request with the minimal header set exactly once and
\* then gives up with an error.
C13_OneMinimalRetry ==
    (mr_pc = "done" /\ AlwaysAnswers({403})) =>
        /\ ~mr_result[1].ok
        /\ MinimalSent(mr_sent) = 1

C29_PdfTimeoutSmaller ==
    \A k \in DOMAIN mr_sent :
        mr_kwargs = PdfKwargs =>
            mr_sent[k].timeout < RequestTimeout(PageKwargs, mr_sent[k].headers)

-----------------------------------------------------------------------------
(* The threads of a pool inside make_request: self.request_count           *)

\* the threads of the pool that are inside make_request at the same time
MaxThreads == 3
Threads == 1..MaxThreads

InitCounter ==
    /\ request_count = 0
    /\ tpc = [t \in Threads |-> "attempt"]
    /\ tloaded = [t \in Threads |-> 0]
    /\ tattempt = [t \in Threads |-> 0]
    /\ attempts_made = 0
    /\ PricesIdle
    /\ RequestIdle
    /\ BatchIdle
    /\ GeminiIdle
    /\ CrawlIdle
    /\ ExcerptsIdle
    /\ HandlerIdle

\* "self.request_count += 1" is a read of the attribute, an addition and a
\* write of the attribute, outside any lock: a thread reads
CounterLoad(t) ==
    /\ tpc[t] = "attempt"
    /\ tloaded' = [tloaded EXCEPT ![t] = request_count]
    /\ tpc' = [tpc EXCEPT ![t] = "loaded"]
    /\ UNCHANGED <<request_count, tattempt, attempts_made, priceVars, requestVars, batchVars, geminiVars, crawlVars,
                   excerptVars, handlerVars>>

\* and writes what it read plus one; the attempt is made
CounterStore(t) ==
    /\ tpc[t] = "loaded"
    /\ request_count' = tloaded[t] + 1
    /\ attempts_made' = attempts_made + 1
    /\ tpc' = [tpc EXCEPT ![t] = "get"]
    /\ UNCHANGED <<tloaded, tattempt, priceVars, requestVars, batchVars, geminiVars, crawlVars, excerptVars,
                   handlerVars>>

\* the request of the attempt ends: the call returns or raises, or goes to its
\* next attempt
CounterGet(t) ==
    /\ tpc[t] = "get"
    /\ \E again \in BOOLEAN :
          IF again /\ tattempt[t] < max_retries - 1
          THEN /\ tattempt' = [tattempt EXCEPT ![t] = @ + 1]
               /\ tpc' = [tpc EXCEPT ![t] = "attempt"]
          ELSE /\ tpc' = [tpc EXCEPT ![t] = "done"]
               /\ UNCHANGED tattempt
    /\ UNCHANGED <<request_count, tloaded, attempts_made, priceVars, requestVars, batchVars, geminiVars, crawlVars,
                   excerptVars, handlerVars>>

NextCounter ==
    \/ \E t \in Threads : CounterLoad(t)
    \/ \E t \in Threads : CounterStore(t)
    \/ \E t \in Threads : CounterGet(t)

SpecCounter == InitCounter /\ [][NextCounter]_vars

\* C24 as stated: whenever no thread is inside the increment, request_count is
\* the number of attempts the threads have made together.
C24_NoLostUpdate ==
    (\A t \in DOMAIN tpc : tpc[t] /= "loaded") => request_count = attempts_made

-----------------------------------------------------------------------------
(* The price recognizer applied to a bounded family of texts               *)

\* the pieces the input texts are built from
PriceChunks ==
    { <<"$">>, <<"$", "1">>, <<"2", "2">>, <<",", "0", "0", "0">>, <<".", "5">>,
      <<".", "5", "0">>, <<" ">>, <<"x">>, <<"\n">>, Chars_USD,
      <<"d", "o", "l", "l", "a", "r", "s">>, <<"P", "r", "i", "c", "e", ":">>,
      <<"c", "o", "s", "t">> }

\* an input text is the concatenation of at most MaxChunks pieces
MaxChunks == 3

RECURSIVE ChunkTexts(_)
ChunkTexts(n) ==
    IF n = 0 THEN {<<>>}
    ELSE LET shorter == ChunkTexts(n - 1)
         IN  shorter \cup {t \o c : t \in shorter, c \in PriceChunks}

PriceTexts == ChunkTexts(MaxChunks)

InitPrices ==
    /\ ptext \in PriceTexts
    /\ pstage = "input"
    /\ pmatches = <<>>
    /\ pprices = <<>>
    /\ RequestIdle
    /\ CounterIdle
    /\ BatchIdle
    /\ GeminiIdle
    /\ CrawlIdle
    /\ ExcerptsIdle
    /\ HandlerIdle

\* one call of find_prices_in_text(ptext)
FindPrices ==
    /\ pstage = "input"
    /\ pmatches' = AllMatches(ptext, NumPricePatterns)
    /\ pprices' = FindPricesInText(ptext)
    /\ pstage' = "done"
    /\ UNCHANGED <<ptext, requestVars, counterVars, batchVars, geminiVars, crawlVars, excerptVars, handlerVars>>

NextPrices == FindPrices

SpecPrices == InitPrices /\ [][NextPrices]_vars

\* every match of every pattern in t, as [k, start, price]: the pattern that
\* found it, where it starts in t and the normalized price it yields (matches
\* that yield none are left out)
RECURSIVE OccurrencesUpTo(_, _)
OccurrencesUpTo(t, k) ==
    IF k = 0 THEN {}
    ELSE LET spans == FindSpans(k, t)
         IN  OccurrencesUpTo(t, k - 1) \cup
             { [k |-> k, start |-> spans[i][1],
                price |-> CleanedEntry(SubSeq(t, spans[i][1], spans[i][2] - 1))[1]] :
               i \in { n \in 1..Len(spans) :
                       CleanedEntry(SubSeq(t, spans[n][1], spans[n][2] - 1)) /= <<>> } }

Occurrences(t) == OccurrencesUpTo(t, NumPricePatterns)

\* where price first occurs in t (whichever pattern recognized it there)
FirstOccurrence(t, price) ==
    LET starts == { o.start : o \in { x \in Occurrences(t) : x.price = price } }
    IN  CHOOSE m \in starts : \A n \in starts : m <= n

\* the first pattern of the table that finds price in t
FirstPattern(t, price) ==
    LET ks == { o.k : o \in { x \in Occurrences(t) : x.price = price } }
    IN  CHOOSE m \in ks : \A n \in ks : m <= n

\* where that pattern first finds it
FirstStartByPattern(t, price) ==
    LET starts == { o.start : o \in { x \in Occurrences(t) :
                        x.price = price /\ x.k = FirstPattern(t, price) } }
    IN  CHOOSE m \in starts : \A n \in starts : m <= n

\* C7: every string find_prices_in_text returns contains a digit and begins
\* with "$", and no string is returned twice.
C7_PricesHaveDigitAndDollarNoRepeat ==
    pstage = "done" =>
        /\ \A i \in 1..Len(pprices) :
              /\ pprices[i] /= <<>>
              /\ pprices[i][1] = "$"
              /\ HasDigit(pprices[i])
        /\ \A i, j \in 1..Len(pprices) : i /= j => pprices[i] /= pprices[j]

\* C7's case: several prices came out, a match without "$" got its prefix and a
\* repeated price was dropped
C7_Witness ==
    /\ pstage = "done"
    /\ Len(pprices) >= 2
    /\ \E i \in 1..Len(pmatches) : pmatches[i][1] /= "$" /\ HasDigit(pmatches[i])
    /\ Len(CleanedPrices(pmatches)) > Len(pprices)

\* C8 as stated: the prices are returned in the order of their first occurrence
\* in the text, whichever pattern found them.
C8_FirstOccurrenceOrder ==
    pstage = "done" =>
        \A i, j \in 1..Len(pprices) :
            i < j => FirstOccurrence(ptext, pprices[i]) <= FirstOccurrence(ptext, pprices[j])

\* C8 amended: the prices are returned in the order in which the patterns find
\* them: by the first pattern of the table that finds the price, and, for
\* prices first found by the same pattern, by where that pattern first finds them
\* in the text.
C8_PatternThenPositionOrder ==
    pstage = "done" =>
        /\ \A i \in 1..Len(pprices) : \E o \in Occurrences(ptext) : o.price = pprices[i]
        /\ \A i, j \in 1..Len(pprices) :
              i < j =>
                \/ FirstPattern(ptext, pprices[i]) < FirstPattern(ptext, pprices[j])
                \/ /\ FirstPattern(ptext, pprices[i]) = FirstPattern(ptext, pprices[j])
                   /\ FirstStartByPattern(ptext, pprices[i])
                        < FirstStartByPattern(ptext, pprices[j])

\* C8's case: two prices were returned, and the one returned first is found by
\* an earlier pattern but occurs later in the text than the other
C8_Witness ==
    /\ pstage = "done"
    /\ \E i, j \in 1..Len(pprices) :
          /\ i < j
          /\ FirstPattern(ptext, pprices[i]) < FirstPattern(ptext, pprices[j])
          /\ FirstOccurrence(ptext, pprices[j]) < FirstOccurrence(ptext, pprices[i])
-----------------------------------------------------------------------------
(* One call of call_gemini_api(filename, api_key, max_retries)              *)

\* the largest max_retries of a call; callers leave max_retries at its default
MaxGeminiRetries == 3

\* a JSON value found under 'text': a string, null or a number
JsonStr(chars) == [type |-> "str", chars |-> chars]
JsonNull == [type |-> "null", chars |-> <<>>]
JsonNumber == [type |-> "number", chars |-> <<"5">>]

\* a part with or without the key 'text', a candidate with or without the keys
\* 'content' and 'parts', a response body with or without the key 'candidates'
PartOf(text) == [text |-> text]
CandidateOf(content) == [content |-> content]
ContentOf(parts) == [parts |-> parts]
BodyOf(error, candidates) == [error |-> error, candidates |-> candidates]

\* the body Gemini sends with one candidate of one part whose text is value
Generated(value) ==
    BodyOf("", << << CandidateOf(<<ContentOf(<< <<PartOf(<<value>>)>> >>)>>) >> >>)

\* what requests.post(api_url, ...) meets: an exception of requests, or a
\* response with its status code, whether it has content, its body as JSON if
\* it is JSON, and the exception class response.json() raises if it is not
PostRaises(exception) ==
    [raises |-> exception, status |-> 0, content |-> FALSE, json |-> <<>>, decoder |-> ""]
PostAnswers(status, json) ==
    [raises |-> "", status |-> status, content |-> TRUE, json |-> <<json>>, decoder |-> ""]
PostAnswersText(status, decoder) ==
    [raises |-> "", status |-> status, content |-> TRUE, json |-> <<>>, decoder |-> decoder]
PostAnswersNothing(status) ==
    [raises |-> "", status |-> status, content |-> FALSE, json |-> <<>>,
     decoder |-> "JSONDecodeError"]

\* the answers with a text call_gemini_api can return
GoodAnswers ==
    { PostAnswers(200, Generated(JsonStr(<<"U", "r", "n", ":", " ", "$", "5", "\n">>))) }

\* the answers a POST to the Gemini endpoint is given
GeminiAnswers ==
    GoodAnswers \cup
    { PostRaises("Timeout"), PostRaises("ConnectionError"),
      PostAnswers(429, BodyOf("RESOURCE_EXHAUSTED", <<>>)),
      PostAnswers(400, BodyOf("API_KEY_INVALID", <<>>)),
      PostAnswers(400, BodyOf("INVALID_ARGUMENT", <<>>)),
      PostAnswersNothing(400),
      PostAnswers(403, BodyOf("PERMISSION_DENIED", <<>>)),
      PostAnswers(500, BodyOf("INTERNAL", <<>>)),
      PostAnswersText(400, "JSONDecodeError"),
      PostAnswers(200, Generated(JsonStr(<<" ", "\n">>))),
      PostAnswers(200, Generated(JsonStr(<<>>))),
      PostAnswers(200, Generated(JsonNull)),
      PostAnswers(200, Generated(JsonNumber)),
      PostAnswers(200, BodyOf("", <<>>)),
      PostAnswers(200, BodyOf("", << <<>> >>)),
      PostAnswers(200, BodyOf("", << << CandidateOf(<<>>) >> >>)),
      PostAnswers(200, BodyOf("", << << CandidateOf(<<ContentOf(<<>>)>>) >> >>)),
      PostAnswers(200, BodyOf("", << << CandidateOf(<<ContentOf(<< <<>> >>)>>) >> >>)),
      PostAnswers(200, BodyOf("", << << CandidateOf(<<ContentOf(<< <<PartOf(<<>>)>> >>)>>) >> >>)),
      PostAnswersText(200, "JSONDecodeError"),
      PostAnswersText(200, "InvalidJSONError") }

\* what call_gemini_api returns: a dict with the key 'error', or a text
ErrorDict(message) == [kind |-> "error", error |-> message, text |-> <<>>]
TextResult(chars) == [kind |-> "text", error |-> "", text |-> chars]

\* how one round of the loop goes on: it returns value, it raises exception
\* out of the function, or the next round follows after the seconds slept
Returns(value) == [kind |-> "return", value |-> <<value>>, exception |-> "", slept |-> <<>>]
Raises(exception) == [kind |-> "raise", value |-> <<>>, exception |-> exception, slept |-> <<>>]
NextRound(slept) == [kind |-> "next", value |-> <<>>, exception |-> "", slept |-> slept]

\* "if attempt == max_retries - 1: return {'error': ...}", else the round
\* ends after the seconds slept, if any
OnLastAttempt(attempt, retries, message, slept) ==
    IF attempt = retries - 1 THEN Returns(ErrorDict(message)) ELSE NextRound(slept)

\* the classes of requests.exceptions.RequestException
RequestExceptions == {"Timeout", "ConnectionError", "HTTPError", "InvalidJSONError"}

\* the except clauses of the loop, in their order
ExceptClauses_RequestErrorsOnly(exception, attempt, retries) ==
    CASE exception = "Timeout" ->
            OnLastAttempt(attempt, retries,
                          "Request timeout - Gemini API took too long to respond", <<2>>)
      [] exception \in RequestExceptions \ {"Timeout"} ->
            OnLastAttempt(attempt, retries, "API request failed: {}", <<2>>)
      [] OTHER -> Raises(exception)
ExceptClauses(exception, attempt, retries) ==
    CASE exception = "Timeout" ->
            OnLastAttempt(attempt, retries,
                          "Request timeout - Gemini API took too long to respond", <<2>>)
      [] exception \in RequestExceptions \ {"Timeout"} ->
            OnLastAttempt(attempt, retries, "API request failed: {}", <<2>>)
      [] exception = "JSONDecodeError" ->
            OnLastAttempt(attempt, retries, "Invalid JSON response: {}", <<2>>)
      [] OTHER ->
            OnLastAttempt(attempt, retries, "Unexpected error: {}", <<2>>)

\* bool(result)
Truthy(value) ==
    \/ value.type = "str" /\ value.chars /= <<>>
    \/ value.type = "number"

\* "Extract the text response": the statements from "response_data =
\* response.json()" to the end of the try block, raised exceptions left to the
\* caller
ExtractText(answer, attempt, retries) ==
    IF answer.json = <<>> THEN Raises(answer.decoder)
    ELSE LET response_data == answer.json[1]
         IN  IF response_data.candidates /= <<>> /\ response_data.candidates[1] /= <<>>
             THEN LET candidate == response_data.candidates[1][1]
                  IN  IF candidate.content /= <<>> /\ candidate.content[1].parts /= <<>>
                      THEN LET parts == candidate.content[1].parts[1]
                           IN  IF parts = <<>> THEN Raises("IndexError")
                               ELSE IF parts[1].text = <<>> THEN Raises("KeyError")
                               ELSE LET result == parts[1].text[1]
                                    IN  IF ~Truthy(result)
                                        THEN OnLastAttempt(attempt, retries,
                                                 "Empty response from Gemini API", <<>>)
                                        ELSE IF result.type /= "str"
                                        THEN Raises("AttributeError")
                                        ELSE IF Len(Strip(result.chars)) > 0
                                        THEN Returns(TextResult(result.chars))
                                        ELSE OnLastAttempt(attempt, retries,
                                                 "Empty response from Gemini API", <<>>)
                      ELSE OnLastAttempt(attempt, retries,
                               "Invalid response structure from Gemini API", <<>>)
             ELSE OnLastAttempt(attempt, retries,
                      "No valid response received from Gemini API", <<>>)

\* "API_KEY_INVALID" in str(error_data), with error_data = response.json() if
\* response.content else {}
MentionsInvalidKey(answer) ==
    answer.content /\ answer.json /= <<>> /\ answer.json[1].error = "API_KEY_INVALID"

\* "if response.status_code == 403: return {'error': ...}"
OnForbidden ==
    Returns(ErrorDict("API quota exceeded or access denied. Check your Gemini API billing and permissions"))

\* 2 ** attempt
RECURSIVE Pow2(_)
Pow2(n) == IF n = 0 THEN 1 ELSE 2 * Pow2(n - 1)

\* the try block of one round of the loop, raised exceptions left to the
\* except clauses
TryBlock(answer, attempt, retries) ==
    IF answer.raises /= "" THEN Raises(answer.raises)
    ELSE IF answer.status = 429 THEN NextRound(<<Pow2(attempt) + 1>>)
    ELSE IF answer.status = 400 /\ answer.content /\ answer.json = <<>>
    THEN Raises(answer.decoder)
    ELSE IF answer.status = 400 /\ MentionsInvalidKey(answer)
    THEN Returns(ErrorDict("Invalid API key. Please check your GEMINI_API_KEY"))
    ELSE IF answer.status = 403 THEN OnForbidden
    ELSE IF answer.status >= 400 THEN Raises("HTTPError")
    ELSE ExtractText(answer, attempt, retries)

\* one round of "for attempt in range(max_retries)" after requests.post met answer
Round(answer, attempt, retries) ==
    LET tried == TryBlock(answer, attempt, retries)
    IN  IF tried.kind = "raise"
        THEN ExceptClauses(tried.exception, attempt, retries)
        ELSE tried

InitGemini ==
    /\ g_pc = "start"
    /\ g_max_retries \in 1..MaxGeminiRetries
    /\ g_attempt = 0
    /\ g_posts = <<>>
    /\ g_slept = <<>>
    /\ g_result = <<>>
    /\ PricesIdle
    /\ RequestIdle
    /\ CounterIdle
    /\ BatchIdle
    /\ CrawlIdle
    /\ ExcerptsIdle
    /\ HandlerIdle

nonGeminiVars == <<priceVars, requestVars, counterVars, batchVars, crawlVars, excerptVars,
                   handlerVars>>

\* "with open(filename, 'r', encoding='utf-8') as file: file_content =
\* file.read()", or the except clause around it
GeminiRead ==
    /\ g_pc = "start"
    /\ \E readable \in BOOLEAN :
          IF readable
          THEN /\ g_pc' = "loop"
               /\ UNCHANGED g_result
          ELSE /\ g_pc' = "returned"
               /\ g_result' = <<ErrorDict("Failed to read file: {}")>>
    /\ UNCHANGED <<g_max_retries, g_attempt, g_posts, g_slept, nonGeminiVars>>

\* one round of the loop: the POST, the handling of what it met and the sleep
GeminiRound ==
    /\ g_pc = "loop"
    /\ g_attempt < g_max_retries
    /\ \E answer \in GeminiAnswers :
          LET round == Round(answer, g_attempt, g_max_retries)
          IN  /\ g_posts' = Append(g_posts, answer)
              /\ g_slept' = g_slept \o round.slept
              /\ g_pc' = CASE round.kind = "return" -> "returned"
                           [] round.kind = "raise" -> "raised"
                           [] OTHER -> "loop"
              /\ g_result' = round.value
              /\ g_attempt' = IF round.kind = "next" THEN g_attempt + 1 ELSE g_attempt
    /\ UNCHANGED <<g_max_retries, nonGeminiVars>>

\* range(max_retries) is exhausted: "return {'error': f'Failed after {max_retries} attempts'}"
GeminiExhausted ==
    /\ g_pc = "loop"
    /\ g_attempt >= g_max_retries
    /\ g_pc' = "returned"
    /\ g_result' = <<ErrorDict("Failed after {} attempts")>>
    /\ UNCHANGED <<g_max_retries, g_attempt, g_posts, g_slept, nonGeminiVars>>

NextGemini ==
    \/ GeminiRead
    \/ GeminiRound
    \/ GeminiExhausted

SpecGemini == InitGemini /\ [][NextGemini]_vars


\* C37: once the excerpt file is read, call_gemini_api sends at most max_retries
\* POSTs, never raises and returns a text that is not empty or a dict with the
\* key 'error'; a 403 ends the call at once with an error, and when every one
\* of the max_retries attempts has failed the call returns an error dict
C37_GeminiCallEnds ==
    /\ Len(g_posts) <= g_max_retries
    /\ g_pc /= "raised"
    /\ g_pc = "returned" =>
          \/ g_result[1].kind = "text" /\ Strip(g_result[1].text) /= <<>>
          \/ g_result[1].kind = "error" /\ g_result[1].error /= ""
    /\ \A i \in DOMAIN g_posts :
          (g_posts[i].raises = "" /\ g_posts[i].status = 403) =>
              /\ i = Len(g_posts)
              /\ g_pc = "returned"
              /\ g_result[1].kind = "error"
    /\ (/\ Len(g_posts) = g_max_retries
        /\ \A i \in DOMAIN g_posts : g_posts[i] \notin GoodAnswers) =>
          /\ g_pc \in {"loop", "returned"}
          /\ g_pc = "loop" => g_attempt = g_max_retries
          /\ g_pc = "returned" => g_result[1].kind = "error"

\* C37's case: a call with three attempts was rate limited, timed out and was
\* rate limited again, and has returned the error of the exhausted loop
C37_Witness ==
    /\ g_pc = "returned"
    /\ g_max_retries >= 3
    /\ Len(g_posts) = g_max_retries
    /\ g_posts[1].status = 429
    /\ g_posts[2].raises = "Timeout"
    /\ g_posts[Len(g_posts)].status = 429
    /\ g_slept[1] = 2 /\ g_slept[2] = 2
    /\ g_result = <<ErrorDict("Failed after {} attempts")>>

====
